---- MODULE Spec2Model ----
(***************************************************************************)
(* Battle resolution of the grid RPG: BattleSystem (src/battle_system.py)  *)
(* acting on Player / NPC / Character objects (src/entities) and on the    *)
(* items of src/items.  One state variable per mutable object; one action  *)
(* per operation.  BattleSystem.battle blocks on input() inside its loop   *)
(* (the revival prompt), so it is modelled with a program counter and one  *)
(* action per _process_attack call; the conclusion of the battle           *)
(* (_handle_victory / _handle_defeat) belongs to the step that ends it.    *)
(*                                                                         *)
(* Numbers: Python floats are IEEE-754 doubles.  Every float expression of *)
(* the code is modelled by an integer operator that yields what the double *)
(* evaluation yields (see IntTimes008, ComboBonus, Round110).              *)
(***************************************************************************)
EXTENDS Integers, Sequences, FiniteSets, TLC

VARIABLES
    player,            \* game.player: a Player object
    npc,               \* the NPC object placed on the grid (in game.npcs)
    bosses,            \* the boss NPCs of the running portal encounter
    cur,               \* the npc argument of battle(): 0 = npc, i = bosses[i]
    npcs,              \* game.npcs: sequence of <<cell, "npc">> pairs
    grid,              \* game.grid on the NPC's level: cell -> symbol
    combo_count,       \* game.combo_count
    combo_multiplier,  \* game.combo_multiplier, in tenths (see MultOf)
    game_stats,        \* game.game_stats
    battle_history,    \* BattleSystem.battle_history
    battle_data,       \* the local battle_data of the running battle()
    pc,                \* control position inside battle()
    calls,             \* number of battle() calls made so far
    td,                \* a combatant under a single take_damage call
    last,              \* the last direct call of a method: name, input, result
    enc,               \* the locals of the running battle_portal_boss()
    player_pos,        \* game.player_pos[0]: the dungeon level the player is on
    portal_window,     \* the modal dialog GameGUI has open: "none" or "portal"
    gg,                \* the GridGame object the GUI windows hold as self.game
    search,            \* the respawn search that is running: its locals
    gui,               \* GameGUI and its BattleWindow: flags, buttons, timer
    ts,                \* an environment TimeSystem object
    saves              \* the save files by slot, and the last save or load

vars == <<player, npc, bosses, cur, npcs, grid, combo_count, combo_multiplier, game_stats,
          battle_history, battle_data, pc, calls, td, last, enc, player_pos, portal_window, gg, search, gui, ts, saves>>

(***************************************************************************)
(* Bounds of the model.                                                    *)
(***************************************************************************)
MaxBattles == 3
MaxPhoenix == 1

Max(a, b) == IF a >= b THEN a ELSE b
Min(a, b) == IF a <= b THEN a ELSE b

PhoenixDown == "Phoenix Down"
LargePotion == "Large Potion"
SmallPotion == "Small Potion"

\* The cells of the NPC's level (a 1 x 3 level, row-major).
GridCells == {1, 2, 3}
EmptySymbol == " "

(***************************************************************************)
(* Float arithmetic of the code, as integer operators.                     *)
(***************************************************************************)

\* int(c * 0.08): the double product truncated.  For every integer
\* 0 <= c < 200000 the double c * 0.08 truncates to floor(8c / 100).
IntTimes008(c) == (c * 8) \div 100

\* game.combo_multiplier = 1.0 + (0.1 * combo_count) is a double.  The map
\* k |-> fl(1.0 + fl(0.1 * k)) is strictly increasing, so the double is
\* represented by the integer 10 + k (its value in tenths).
MultOfDoubleStep(count) == 10 + 2 * count
MultOf(count) == 10 + count

\* int(base * (combo_multiplier - 1)) evaluated in doubles, with the
\* multiplier fl(1.0 + fl(0.1 * k)), k = mult - 10, 0 <= k <= 8, base < 200000.
\* The double (multiplier - 1) is 0.10000000000000009, 0.19999999999999996,
\* 0.30000000000000004, 0.3999999999999999, 0.5, 0.6000000000000001,
\* 0.7000000000000002, 0.8 for k = 1..8: for k = 2 and k = 4 it lies below
\* k/10, and the product with a base for which base * k / 10 is a whole number
\* falls just below that number, so the truncation loses 1.
ComboBonusWrongOrder(base, mult) ==
    LET k == mult - 11
    IN  IF k \in {2, 4} /\ base > 0 /\ (base * k) % 10 = 0
        THEN (base * k) \div 10 - 1
        ELSE (base * Max(k, 0)) \div 10
ComboBonus(base, mult) ==
    LET k == mult - 10
    IN  IF k \in {2, 4} /\ base > 0 /\ (base * k) % 10 = 0
        THEN (base * k) \div 10 - 1
        ELSE (base * k) \div 10

\* round(m * 1.10) for 0 <= m < 200: Python rounds the double m * 1.10 half
\* to even.  When 11m/10 ends in .5 the double product is exactly the half
\* for m in {5, 15, 35, 65, 75, 125, 135, 145, 155} (rounded to the even
\* neighbour) and lies just above the half for the other m (rounded up).
HalvesRoundedDown == {15, 35, 75, 135, 155}
Round110(m) ==
    LET q == (m * 11) \div 10
        r == (m * 11) % 10
    IN  IF r > 5 THEN q + 1
        ELSE IF r < 5 THEN q
        ELSE IF m \in HalvesRoundedDown THEN q ELSE q + 1

(***************************************************************************)
(* Combatants.                                                             *)
(***************************************************************************)

\* weapon is <<>> (None) or <<attack>> (a Weapon).
WeaponAttack(c) == IF c.weapon = <<>> THEN 0 ELSE c.weapon[1]

\* Character.attack_character computes attack + weapon.attack.
TotalAttack(c) == c.attack + WeaponAttack(c)

IsAliveAlways(c) == TRUE
IsAlive(c) == c.health > 0

\* actual_damage = max(1, damage - self.defense), the same line in
\* Character, NPC and Player
ActualDamageNoMinimum(c, damage) == Max(0, damage - c.defense)
ActualDamage(c, damage) == Max(1, damage - c.defense)

\* NPC.take_damage
NPCTakeDamage(n, damage) ==
    [n EXCEPT !.health = Max(0, n.health - ActualDamage(n, damage))]

\* Player.take_damage (the statistics counters damage_taken and death_count
\* it increments are write-only and are not part of the state)
PlayerTakeDamage(p, damage) ==
    [p EXCEPT !.health = Max(0, p.health - ActualDamage(p, damage))]

\* Character.take_damage (the base class: no floor at 0)
CharacterTakeDamage(c, damage) ==
    [c EXCEPT !.health = c.health - ActualDamage(c, damage)]

\* list.remove(x): drops the first occurrence of x
RemoveFirst(s, x) ==
    LET i == CHOOSE j \in 1..Len(s) :
                 s[j] = x /\ \A l \in 1..(j - 1) : s[l] # x
    IN  SubSeq(s, 1, i - 1) \o SubSeq(s, i + 1, Len(s))

Has(s, x) == \E i \in 1..Len(s) : s[i] = x

\* s[-1]
Last(s) == s[Len(s)]

Count(s, x) == Cardinality({i \in 1..Len(s) : s[i] = x})

\* NPC.respawn with int() in the place of round()
RespawnTruncated(n, stat) ==
    LET m == (n.max_health * 11) \div 10
    IN  [n EXCEPT !.max_health = m,
                  !.health = m,
                  !.attack = IF stat = "attack" THEN @ + 1 ELSE @,
                  !.defense = IF stat = "defense" THEN @ + 1 ELSE @,
                  !.agility = IF stat = "agility" THEN @ + 1 ELSE @]

\* NPC.respawn with the stat that random.choice picked
Respawn(n, stat) ==
    LET m == Round110(n.max_health)
    IN  [n EXCEPT !.max_health = m,
                  !.health = m,
                  !.attack = IF stat = "attack" THEN @ + 1 ELSE @,
                  !.defense = IF stat = "defense" THEN @ + 1 ELSE @,
                  !.agility = IF stat = "agility" THEN @ + 1 ELSE @]

RespawnStats == {"attack", "defense", "agility"}

(***************************************************************************)
(* BattleSystem.battle                                                     *)
(***************************************************************************)

\* The npc argument of the running battle() call.
Foe == IF cur = 0 THEN npc ELSE bosses[cur]

BlankData ==
    [turns |-> 0, player_start_hp |-> 0, npc_start_hp |-> 0,
     phoenix_downs_used |-> 0, result |-> "None", player_end_hp |-> 0,
     npc_end_hp |-> 0, credits_gained |-> 0, items_found |-> <<>>,
     experience_gained |-> 0, npc_name |-> "None"]

FoeName(i) == IF i = 0 THEN "npc" ELSE IF i = 1 THEN "boss1" ELSE "boss2"

\* battle(), lines 116-131: the fresh battle_data record
NewBattleData(p, n, i) ==
    [BlankData EXCEPT !.player_start_hp = p.health,
                      !.npc_start_hp = n.health,
                      !.npc_name = FoeName(i)]

\* battle(), lines 136-138: "Reset health for both characters"
ResetHealthKeep(c) == c
ResetHealth(c) == [c EXCEPT !.health = c.max_health]

\* handle_phoenix_down(player) with the answer given to its prompt; the
\* prompt is shown only when the inventory holds a Phoenix Down.
HandlePhoenixDownKeepItem(p, answer) ==
    IF Has(p.inventory, PhoenixDown) /\ answer
    THEN [player |-> [p EXCEPT !.health = p.max_health], revived |-> TRUE]
    ELSE [player |-> p, revived |-> FALSE]
HandlePhoenixDown(p, answer) ==
    IF Has(p.inventory, PhoenixDown) /\ answer
    THEN [player |-> [p EXCEPT !.inventory = RemoveFirst(@, PhoenixDown),
                               !.health = p.max_health],
          revived |-> TRUE]
    ELSE [player |-> p, revived |-> FALSE]

\* battle(), lines 151-152 and 161-162: the combo counter at the conclusion
ComboOnDefeat(count) == 0
ComboOnVictoryKeep(count) == count
ComboOnVictory(count) == count + 1

\* game.is_position_empty(level, row, col) on the NPC's level
IsPositionEmpty(g, cell) == g[cell] = EmptySymbol

InNpcs(list) == \E k \in 1..Len(list) : list[k][2] = "npc"
PosInNpcs(list) ==
    list[CHOOSE k \in 1..Len(list) :
             list[k][2] = "npc" /\ \A l \in 1..(k - 1) : list[l][2] # "npc"][1]
RemoveNpc(list) == RemoveFirst(list, <<PosInNpcs(list), "npc">>)

\* Where battle() returns to: its caller (line 380 of battle_portal_boss
\* when the opponent is a boss).
ReturnPcIdle == "idle"
ReturnPc == IF cur = 0 THEN "idle" ELSE "boss_after"

\* _handle_defeat plus lines 148-153 of battle(): the branch taken when
\* _process_attack(player, npc) returns False.
ConcludeAfterPlayerAttack(bd, n1) ==
    LET credit_loss == IntTimes008(player.credits)
        n2 == [n1 EXCEPT !.credits = @ + credit_loss]
        cc == ComboOnDefeat(combo_count)
        rec == [bd EXCEPT !.player_end_hp = player.health,
                          !.npc_end_hp = n1.health,
                          !.result = "Defeat"]
    IN  /\ combo_count' = cc
        /\ combo_multiplier' = MultOf(cc)
        /\ IF cur = 0 THEN npc' = n2 /\ UNCHANGED bosses
                      ELSE bosses' = [bosses EXCEPT ![cur] = n2] /\ UNCHANGED npc
        /\ game_stats' = [game_stats EXCEPT !.battles_lost = @ + 1]
        /\ battle_history' = Append(battle_history, rec)
        /\ battle_data' = BlankData
        /\ pc' = ReturnPc
        /\ UNCHANGED <<player, npcs, grid, cur, calls, td, last, enc, player_pos, portal_window, gg, search>>

\* _process_attack(player, npc) and what battle() does with its result
\* (lines 142-153).  The defender is not game.player: no revival.
PlayerAttacks ==
    /\ pc = "player_turn"
    /\ LET bd == [battle_data EXCEPT !.turns = @ + 1]
           n1 == NPCTakeDamage(Foe, TotalAttack(player))
       IN  IF IsAlive(n1)
           THEN /\ IF cur = 0 THEN npc' = n1 /\ UNCHANGED bosses
                              ELSE bosses' = [bosses EXCEPT ![cur] = n1]
                                   /\ UNCHANGED npc
                /\ battle_data' = bd
                /\ pc' = "npc_turn"
                /\ UNCHANGED <<player, npcs, grid, cur, combo_count,
                               combo_multiplier, game_stats, battle_history,
                               calls, td, last, enc, player_pos, portal_window, gg, search>>
           ELSE ConcludeAfterPlayerAttack(bd, n1)
    /\ UNCHANGED <<gui, ts, saves>>

\* _handle_victory, lines 216-220: the items handed to the player and named
\* in items_found, in the order of the loop (an item is modelled by its name)
ItemsTransferredFromDrops(n) == n.drops
ItemsTransferred(n) == n.inventory

\* The reward of _handle_victory, lines 194-196.
CreditReward(n, mult) ==
    LET base_credit_reward == IntTimes008(n.credits)
    IN  base_credit_reward + ComboBonus(base_credit_reward, mult)

\* _handle_victory plus lines 158-163 of battle(): the branch taken when
\* _process_attack(npc, player) returns False.  stat and cell are what
\* random.choice / random.randint yield in the respawn.
ConcludeAfterNpcAttack(bd, p2, stat, cell) ==
    LET n == Foe
        cc == ComboOnVictory(combo_count)
        cm == MultOf(cc)
        credit_reward == CreditReward(n, cm)
        p3 == [p2 EXCEPT !.credits = @ + credit_reward,
                         !.inventory = @ \o ItemsTransferred(n)]
        rec == [bd EXCEPT !.player_end_hp = p2.health,
                          !.npc_end_hp = n.health,
                          !.result = "Victory",
                          !.credits_gained = credit_reward,
                          !.items_found = ItemsTransferred(n)]
        respawns == cur = 0 /\ ~n.is_boss /\ InNpcs(npcs)
        cleared == [grid EXCEPT ![PosInNpcs(npcs)] = EmptySymbol]
    IN  /\ combo_count' = cc
        /\ combo_multiplier' = cm
        /\ player' = p3
        /\ game_stats' = [game_stats EXCEPT
                              !.monsters_killed = @ + 1,
                              !.battles_won = @ + 1,
                              !.total_credits_earned = @ + credit_reward]
        /\ IF respawns
           THEN /\ IsPositionEmpty(cleared, cell)
                /\ npc' = Respawn(n, stat)
                /\ grid' = [cleared EXCEPT ![cell] = n.symbol]
                /\ npcs' = Append(RemoveNpc(npcs), <<cell, "npc">>)
           ELSE /\ stat = "attack" /\ cell = 1
                /\ UNCHANGED <<npc, grid, npcs>>
        /\ battle_history' = Append(battle_history, rec)
        /\ battle_data' = BlankData
        /\ pc' = ReturnPc
        /\ UNCHANGED <<bosses, cur, calls, td, last, enc, player_pos, portal_window, gg, search>>

\* _process_attack(npc, player) and what battle() does with its result
\* (lines 155-163).  answer is the reply to the revival prompt.
NpcAttacks ==
    /\ pc = "npc_turn"
    /\ LET p1 == PlayerTakeDamage(player, TotalAttack(Foe))
       IN  IF IsAlive(p1)
           THEN /\ player' = p1
                /\ pc' = "player_turn"
                /\ UNCHANGED <<npc, bosses, cur, npcs, grid, combo_count,
                               combo_multiplier, game_stats, battle_history,
                               battle_data, calls, td, last, enc, player_pos, portal_window, gg, search>>
           ELSE \E answer \in BOOLEAN :
                  LET h == HandlePhoenixDown(p1, answer)
                  IN  IF h.revived
                      THEN /\ player' = h.player
                           /\ battle_data' =
                                [battle_data EXCEPT !.phoenix_downs_used = @ + 1]
                           /\ pc' = "player_turn"
                           /\ UNCHANGED <<npc, bosses, cur, npcs, grid,
                                          combo_count, combo_multiplier,
                                          game_stats, battle_history, calls, td,
                                          last, enc, player_pos, portal_window, gg, search>>
                      ELSE \E stat \in RespawnStats, cell \in GridCells :
                             ConcludeAfterNpcAttack(battle_data, h.player,
                                                    stat, cell)
    /\ UNCHANGED <<gui, ts, saves>>

\* battle(player, npc) is called on the grid NPC: lines 116-138.
StartBattle ==
    /\ pc = "idle"
    /\ calls < MaxBattles
    /\ calls' = calls + 1
    /\ cur' = 0
    /\ battle_data' = NewBattleData(player, npc, 0)
    /\ player' = ResetHealth(player)
    /\ npc' = ResetHealth(npc)
    /\ pc' = "player_turn"
    /\ UNCHANGED <<bosses, npcs, grid, combo_count, combo_multiplier,
                   game_stats, battle_history, td, last, enc, player_pos, portal_window, gg, search>>
    /\ UNCHANGED <<gui, ts, saves>>

\* battle_portal_boss(player) as it runs: line 278 counts the attempt, and
\* the first pass of the loop that builds the bosses calls
\* Weapon(weapon_name, weapon_attack) at line 320.  Weapon.__init__
\* (src/items/weapon.py:6) takes (name, description, attack), so the call
\* raises TypeError and the method is left before any boss exists.
BattlePortalBoss ==
    /\ pc = "idle"
    /\ game_stats.portal_boss_attempts < MaxBattles
    /\ game_stats' = [game_stats EXCEPT !.portal_boss_attempts = @ + 1]
    /\ last' = [op |-> "battle_portal_boss", choice |-> 0,
                result |-> "TypeError"]
    /\ UNCHANGED <<player, npc, bosses, cur, npcs, grid, combo_count,
                   combo_multiplier, battle_history, battle_data, pc, calls,
                   td, enc, player_pos, portal_window, gg, search>>
    /\ UNCHANGED <<gui, ts, saves>>

(***************************************************************************)
(* Initial state.                                                          *)
(***************************************************************************)

\* Player.__init__ defaults (name, 100, 10, 5, 5), 1000 credits.
NewPlayer(weapon, inventory) ==
    [health |-> 100, max_health |-> 100, attack |-> 10, defense |-> 5,
     agility |-> 5, credits |-> 1000, inventory |-> inventory,
     weapon |-> weapon, level |-> 1, experience |-> 0,
     experience_to_next_level |-> 100, energy |-> 50, max_energy |-> 50,
     level_keys |-> {}]

\* NPC.__init__ with the credits random.randint(50, 200) * level drew
NewNPC(health, attack, defense, agility, level, is_boss, credits, inventory) ==
    [health |-> health, max_health |-> health, attack |-> attack,
     defense |-> defense, agility |-> agility, level |-> level,
     is_boss |-> is_boss, credits |-> credits, inventory |-> inventory,
     weapon |-> <<>>, symbol |-> "E", drops |-> <<>>]

\* The NPCs battles are run against: the scenario NPC of the specification,
\* one that kills the player in two rounds (it carries two items and has a
\* drop registered with add_drop), and one whose defense exceeds
\* every attack of the player and whose attack is below the player's defense.
NpcChoices ==
    { NewNPC(30, 10, 3, 5, 1, FALSE, 63, <<>>),
      [NewNPC(40, 60, 3, 5, 1, FALSE, 130, <<SmallPotion, PhoenixDown>>)
          EXCEPT !.drops = <<LargePotion>>],
      NewNPC(3, 4, 25, 5, 1, FALSE, 130, <<>>) }

RECURSIVE Repeat(_, _)
Repeat(x, n) == IF n = 0 THEN <<>> ELSE <<x>> \o Repeat(x, n - 1)

InventoryChoices == { Repeat(PhoenixDown, k) : k \in 0..MaxPhoenix }

WeaponChoices == { <<>>, <<10>> }

\* game.combo_count when the session starts
InitialComboCount == 0

\* The names of the items that occur in inventories
ItemNames == {PhoenixDown, SmallPotion, LargePotion}

BlankStats ==
    [monsters_killed |-> 0, battles_won |-> 0, battles_lost |-> 0,
     total_credits_earned |-> 0, portal_boss_attempts |-> 0,
     portal_bosses_defeated |-> 0, items_used |-> [i \in ItemNames |-> 0]]

\* No method has been called directly yet.
BlankLast == [op |-> "None", choice |-> 0, result |-> "None"]

\* None
NoPos == <<>>

\* No GridGame has been constructed.
BlankGG ==
    [grid |-> <<>>, npcs |-> <<>>, player_pos |-> NoPos,
     portal_pos |-> NoPos, store_pos |-> {}, planted_crops |-> {}]

\* No respawn search is running.  caller is the method that runs the
\* search, result the argument of handle_battle_end, returned whether the
\* search has ended, new_pos what it found (NoPos for None).
BlankSearch ==
    [caller |-> "None", level |-> 0, attempts |-> 0, original_pos |-> NoPos,
     new_pos |-> NoPos, returned |-> FALSE, result |-> "None"]

\* no GameGUI was constructed
BlankGui ==
    [battle_in_progress |-> FALSE, current_battle_npc |-> FALSE,
     window |-> "none", result |-> "None", turn |-> 0, countdown |-> FALSE,
     other |-> <<>>]

\* no TimeSystem was constructed
BlankTs == [time_scale |-> 0]

\* no save file exists and no save or load was made
BlankSaves == [files |-> <<>>, loaded |-> <<>>, at_save |-> <<>>]

\* No portal encounter is running.
BlankEnc ==
    [level |-> 0, i |-> 0, remaining_health |-> 0, battle_results |-> <<>>,
     total_credits_gained |-> 0, items_found |-> <<>>, total_turns |-> 0,
     boss_battle_record |-> <<>>]

\* td is not used by the battle
BlankTd == [variant |-> "None", health |-> 0, max_health |-> 0, defense |-> 0,
            before |-> 0, raw |-> 0, returned |-> 0]

Init ==
    /\ player \in { NewPlayer(w, inv) : w \in WeaponChoices,
                                        inv \in InventoryChoices }
    /\ npc \in NpcChoices
    /\ bosses = <<>>
    /\ cur = 0
    /\ npcs = << <<2, "npc">> >>
    /\ grid = [c \in GridCells |->
                  IF c = 1 THEN "@" ELSE IF c = 2 THEN "E" ELSE EmptySymbol]
    /\ combo_count = InitialComboCount
    /\ combo_multiplier = MultOf(InitialComboCount)
    /\ game_stats = BlankStats
    /\ battle_history = <<>>
    /\ battle_data = BlankData
    /\ pc = "idle"
    /\ calls = 0
    /\ td = BlankTd
    /\ last = BlankLast
    /\ player_pos = 0
    /\ portal_window = "none"
    /\ gg = BlankGG
    /\ search = BlankSearch
    /\ enc = BlankEnc
    /\ gui = BlankGui /\ ts = BlankTs /\ saves = BlankSaves

Next ==
    \/ StartBattle
    \/ PlayerAttacks
    \/ NpcAttacks
    \/ BattlePortalBoss

Spec == Init /\ [][Next]_vars

FairSpec == Spec /\ WF_vars(PlayerAttacks) /\ WF_vars(NpcAttacks)

(***************************************************************************)
(* The operations on combatants, called in any order (SpecOps).            *)
(***************************************************************************)
MaxOps == 3
MaxRespawns == 2
MaxDraws == 7

\* Potion.use(target) of a potion with the given heal_amount
PotionUse(c, heal_amount) ==
    IF c.health >= c.max_health THEN c
    ELSE [c EXCEPT !.health = Min(c.max_health, c.health + heal_amount)]

\* SmallPotion, MediumPotion, LargePotion
HealAmounts == {20, 50, 100}

\* RevivePotion.use(character)
RevivePotionUse(c) ==
    IF IsAlive(c) THEN c ELSE [c EXCEPT !.health = c.max_health]

\* Player.level_up
LevelUp(p) ==
    [p EXCEPT !.level = @ + 1,
              !.max_health = @ + 20,
              !.health = p.max_health + 20,
              !.attack = @ + 5,
              !.defense = @ + 3,
              !.agility = @ + 2,
              !.max_energy = @ + 10,
              !.energy = p.max_energy + 10]

\* add_experience with an if in place of the while of line 55
LevelUpsOnce(p) ==
    IF p.experience >= p.experience_to_next_level
    THEN LET q == LevelUp([p EXCEPT !.experience =
                                        @ - p.experience_to_next_level])
         IN  [q EXCEPT !.experience_to_next_level = q.level * 100]
    ELSE p

\* Player.add_experience: the while loop of lines 55-60, from the state
\* in which amount has been added to experience
RECURSIVE LevelUps(_)
LevelUps(p) ==
    IF p.experience >= p.experience_to_next_level
    THEN LET q == LevelUp([p EXCEPT !.experience =
                                        @ - p.experience_to_next_level])
         IN  LevelUps([q EXCEPT !.experience_to_next_level = q.level * 100])
    ELSE p

AddExperience(p, amount) == LevelUps([p EXCEPT !.experience = @ + amount])

ExperienceAmounts == {60, 250}

\* int(x * level_multiplier), level_multiplier = 1.0 + (0.1 * level): for
\* 0 <= level <= 3 and 0 <= x <= 3000 the double product truncates to
\* floor(x * (10 + level) / 10).
IntTimesLevel(x, level) == (x * (10 + level)) \div 10

\* int(energy_boost * 0.2) = floor(energy_boost / 5) for 0 <= energy_boost < 5000
IntTimes02(x) == x \div 5

\* award_portal_boss_rewards(player) on dungeon level d.level with the random
\* draws d: credits (randint(500, 1000)), stat (0: the 70% roll failed,
\* 1..4: stat_choice), amount (the randint of the chosen stat), energy
\* (randint(20, 50)), items (what the item rolls appended).
AwardPortalBossRewardsHealthOnly(p, d) ==
    [p EXCEPT !.health = IF d.stat = 1
                         THEN @ + IntTimesLevel(d.amount, d.level) ELSE @]
AwardPortalBossRewards(p, d) ==
    LET boost_amount == IntTimesLevel(d.amount, d.level)
        energy_boost == IntTimesLevel(d.energy, d.level)
        max_energy_boost == IntTimes02(energy_boost)
    IN  [p EXCEPT
           !.credits = @ + IntTimesLevel(d.credits, d.level),
           !.max_health = IF d.stat = 1 THEN @ + boost_amount ELSE @,
           !.health = IF d.stat = 1 THEN @ + boost_amount ELSE @,
           !.attack = IF d.stat = 2 THEN @ + boost_amount ELSE @,
           !.defense = IF d.stat = 3 THEN @ + boost_amount ELSE @,
           !.agility = IF d.stat = 4 THEN @ + boost_amount ELSE @,
           !.energy = Min(p.energy + energy_boost,
                          p.max_energy + max_energy_boost),
           !.max_energy = @ + max_energy_boost,
           !.inventory = @ \o d.items]

RewardDraws ==
    { [level |-> 0, credits |-> 500, stat |-> 0, amount |-> 0,
       energy |-> 20, items |-> <<>>],
      [level |-> 0, credits |-> 1000, stat |-> 1, amount |-> 10,
       energy |-> 50, items |-> <<PhoenixDown>>],
      [level |-> 2, credits |-> 500, stat |-> 1, amount |-> 20,
       energy |-> 20, items |-> <<>>],
      [level |-> 2, credits |-> 500, stat |-> 2, amount |-> 5,
       energy |-> 20, items |-> <<>>],
      [level |-> 0, credits |-> 500, stat |-> 3, amount |-> 2,
       energy |-> 20, items |-> <<>>],
      [level |-> 3, credits |-> 500, stat |-> 4, amount |-> 3,
       energy |-> 20, items |-> <<>>] }

OpsFrame == UNCHANGED <<bosses, cur, npcs, grid, combo_count, combo_multiplier,
                        game_stats, battle_history, battle_data, pc, enc, player_pos, portal_window, gg, search>>

\* npc.attack_character(player)
OpNpcAttacks ==
    /\ calls < MaxOps /\ calls' = calls + 1
    /\ player' = PlayerTakeDamage(player, TotalAttack(npc))
    /\ last' = [op |-> "attack_character", choice |-> 0, result |-> "None"]
    /\ UNCHANGED <<npc, td>> /\ OpsFrame
    /\ UNCHANGED <<gui, ts, saves>>

\* player.attack_character(npc)
OpPlayerAttacks ==
    /\ calls < MaxOps /\ calls' = calls + 1
    /\ npc' = NPCTakeDamage(npc, TotalAttack(player))
    /\ last' = [op |-> "attack_character", choice |-> 0, result |-> "None"]
    /\ UNCHANGED <<player, td>> /\ OpsFrame
    /\ UNCHANGED <<gui, ts, saves>>

\* attacker.attack_character(character) on a plain Character, with the
\* attacker's total attack raw; td keeps the call: health before, argument
\* and returned damage.
RawDamages == {1, 4, 10, 40}

OpCharacterAttacked ==
    /\ calls < MaxOps /\ calls' = calls + 1
    /\ \E raw \in RawDamages :
         td' = [CharacterTakeDamage(td, raw) EXCEPT
                   !.variant = "Character",
                   !.before = td.health,
                   !.raw = raw,
                   !.returned = ActualDamage(td, raw)]
    /\ last' = [op |-> "take_damage", choice |-> 0, result |-> "None"]
    /\ UNCHANGED <<player, npc>> /\ OpsFrame
    /\ UNCHANGED <<gui, ts, saves>>

\* The text a Python bool prints as
BoolText(b) == IF b THEN "True" ELSE "False"

\* handle_phoenix_down(player): the method does not look at the player's
\* health.  choice 1 is the answer 'y' to its prompt.
OpHandlePhoenixDown ==
    /\ calls < MaxOps /\ calls' = calls + 1
    /\ \E answer \in BOOLEAN :
         LET h == HandlePhoenixDown(player, answer)
         IN  /\ player' = h.player
             /\ last' = [op |-> "handle_phoenix_down",
                         choice |-> IF answer THEN 1 ELSE 0,
                         result |-> BoolText(h.revived)]
    /\ UNCHANGED <<npc, td>> /\ OpsFrame
    /\ UNCHANGED <<gui, ts, saves>>

\* RevivePotion.use(player)
OpRevivePotion ==
    /\ calls < MaxOps /\ calls' = calls + 1
    /\ player' = RevivePotionUse(player)
    /\ last' = [op |-> "RevivePotion.use", choice |-> 0,
                result |-> BoolText(~IsAlive(player))]
    /\ UNCHANGED <<npc, td>> /\ OpsFrame
    /\ UNCHANGED <<gui, ts, saves>>

\* Potion.use(player)
OpPotion ==
    /\ calls < MaxOps /\ calls' = calls + 1
    /\ \E heal_amount \in HealAmounts :
         /\ player' = PotionUse(player, heal_amount)
         /\ last' = [op |-> "Potion.use", choice |-> heal_amount,
                     result |-> BoolText(player.health < player.max_health)]
    /\ UNCHANGED <<npc, td>> /\ OpsFrame
    /\ UNCHANGED <<gui, ts, saves>>

\* player.add_experience(amount)
OpAddExperience ==
    /\ calls < MaxOps /\ calls' = calls + 1
    /\ \E amount \in ExperienceAmounts :
         /\ player' = AddExperience(player, amount)
         /\ last' = [op |-> "add_experience", choice |-> amount,
                     result |-> "None"]
    /\ UNCHANGED <<npc, td>> /\ OpsFrame
    /\ UNCHANGED <<gui, ts, saves>>

\* npc.respawn()
OpRespawn ==
    /\ calls < MaxOps /\ calls' = calls + 1
    /\ \E stat \in RespawnStats :
         /\ npc' = Respawn(npc, stat)
         /\ last' = [op |-> "respawn", choice |-> 0, result |-> stat]
    /\ UNCHANGED <<player, td>> /\ OpsFrame
    /\ UNCHANGED <<gui, ts, saves>>

\* selected_item.use(player) for the item of the given name: the result of
\* the call and the player it leaves
ItemUse(name, p) ==
    IF name = PhoenixDown
    THEN [player |-> RevivePotionUse(p), result |-> ~IsAlive(p)]
    ELSE LET heal_amount == IF name = SmallPotion THEN 20 ELSE 100
         IN  [player |-> PotionUse(p, heal_amount),
              result |-> p.health < p.max_health]

\* The answers to the item prompt: 0 is Enter (cancel), k > 0 the number k
ItemChoices == 0..3

\* _handle_item_usage(player) with the answer choice, on player p and
\* game_stats gs: the selected item is removed from the inventory before it
\* is used.  result is what the item's use returned ("None" when no item
\* was used).
HandleItemUsage(p, gs, choice) ==
    IF p.inventory # <<>> /\ choice \in 1..Len(p.inventory)
    THEN LET selected_item == p.inventory[choice]
             removed == [p EXCEPT !.inventory = RemoveFirst(@, selected_item)]
             u == ItemUse(selected_item, removed)
         IN  [player |-> u.player,
              game_stats |-> [gs EXCEPT !.items_used[selected_item] = @ + 1],
              result |-> BoolText(u.result)]
    ELSE [player |-> p, game_stats |-> gs, result |-> "None"]

OpHandleItemUsage ==
    /\ calls < MaxOps /\ calls' = calls + 1
    /\ \E choice \in ItemChoices :
         LET u == HandleItemUsage(player, game_stats, choice)
         IN  /\ player' = u.player
             /\ game_stats' = u.game_stats
             /\ last' = [op |-> "_handle_item_usage", choice |-> choice,
                         result |-> u.result]
    /\ UNCHANGED <<npc, td, bosses, cur, npcs, grid, combo_count,
                   combo_multiplier, battle_history, battle_data, pc, enc, player_pos, portal_window, gg, search>>
    /\ UNCHANGED <<gui, ts, saves>>

\* award_portal_boss_rewards(player)
OpAwardPortalBossRewards ==
    /\ calls < MaxOps /\ calls' = calls + 1
    /\ \E d \in RewardDraws : player' = AwardPortalBossRewards(player, d)
    /\ last' = [op |-> "award_portal_boss_rewards", choice |-> 0,
                result |-> "None"]
    /\ UNCHANGED <<npc, td>> /\ OpsFrame
    /\ UNCHANGED <<gui, ts, saves>>

\* The first lines of battle(): both healths are reset
OpBattleReset ==
    /\ calls < MaxOps /\ calls' = calls + 1
    /\ player' = ResetHealth(player)
    /\ npc' = ResetHealth(npc)
    /\ last' = [op |-> "battle", choice |-> 0, result |-> "None"]
    /\ UNCHANGED td /\ OpsFrame
    /\ UNCHANGED <<gui, ts, saves>>

\* Character.__init__(name, health, attack, defense, ...)
NewCharacter(health, defense) ==
    [variant |-> "None", health |-> health, max_health |-> health,
     defense |-> defense, before |-> health, raw |-> 0, returned |-> 0]

InitOps ==
    /\ player \in { NewPlayer(w, inv) : w \in WeaponChoices,
                                        inv \in InventoryChoices }
    /\ npc \in NpcChoices
    /\ td \in { NewCharacter(h, d) : h \in {5, 30}, d \in {0, 5} }
    /\ bosses = <<>>
    /\ cur = 0
    /\ npcs = << <<2, "npc">> >>
    /\ grid = [c \in GridCells |->
                  IF c = 1 THEN "@" ELSE IF c = 2 THEN "E" ELSE EmptySymbol]
    /\ combo_count = InitialComboCount
    /\ combo_multiplier = MultOf(InitialComboCount)
    /\ game_stats = BlankStats
    /\ battle_history = <<>>
    /\ battle_data = BlankData
    /\ pc = "idle"
    /\ calls = 0
    /\ last = BlankLast
    /\ player_pos = 0
    /\ portal_window = "none"
    /\ gg = BlankGG
    /\ search = BlankSearch
    /\ enc = BlankEnc
    /\ gui = BlankGui /\ ts = BlankTs /\ saves = BlankSaves

NextOps ==
    \/ OpNpcAttacks
    \/ OpPlayerAttacks
    \/ OpCharacterAttacked
    \/ OpHandlePhoenixDown
    \/ OpRevivePotion
    \/ OpPotion
    \/ OpAddExperience
    \/ OpRespawn
    \/ OpAwardPortalBossRewards
    \/ OpBattleReset
    \/ OpHandleItemUsage

SpecOps == InitOps /\ [][NextOps]_vars

(***************************************************************************)
(* battle_portal_boss from line 344 on (SpecBoss): the two fights and the  *)
(* return.  The specification starts in the state lines 278-342 leave when *)
(* both bosses have been built, i.e. with a weapon object for each boss;   *)
(* BattlePortalBoss above is the call as the Weapon class of src/items     *)
(* lets it run.                                                            *)
(***************************************************************************)

\* game.player_pos[0] values of the encounters.  NPC.generate_random uses
\* max(1, level), so its level_multiplier 1 + 0.15 * (actual_level - 1) is
\* 1.0 for both and int(base * 1.0) = base.
PortalLevels == {0, 1}

\* NPC.generate_random(level, is_boss) with what the random calls drew: d
\* holds base_health, base_attack, base_defense, base_agility and the
\* credits of NPC.__init__
GenerateRandom(level, is_boss, d) ==
    LET actual_level == Max(1, level)
        scaled(b) == (b * (100 + 15 * (actual_level - 1))) \div 100
        stat(b) == IF is_boss THEN scaled(b) * 2 ELSE scaled(b)
    IN  NewNPC(stat(d.base_health), stat(d.base_attack),
               stat(d.base_defense), stat(d.base_agility), actual_level,
               is_boss, d.credits, <<>>)

\* weapon_attack, lines 318-319: int(x * 0.5 * level_multiplier) with
\* level_multiplier = 1.0 + level * 0.08; for level 0 and 1 and x < 200
\* the double product truncates to floor(x * (100 + 8 * level) / 200).
BossWeaponAttack(p, level) ==
    ((IF p.weapon # <<>> THEN p.weapon[1] ELSE p.attack)
        * (100 + 8 * level)) \div 200

\* The boss lines 310-342 build for the player p on the given level: the
\* stats are those of generate_random; the locals health, attack, defense
\* and agility computed from the player in lines 303-309 are not used.
\* The credits NPC.__init__ drew are overwritten: credits =
\* int(randint(1000, 3000) * level_multiplier), exact for level 0 and 1.
BuildBoss(p, level, i, d) ==
    [GenerateRandom(level, TRUE, d)
       EXCEPT !.symbol = IF i = 1 THEN "B" ELSE "K",
              !.weapon = <<BossWeaponAttack(p, level)>>,
              !.credits = (d.credits * (100 + 8 * level)) \div 100,
              !.inventory = d.items]

\* What the random calls of one boss drew: the least and the greatest base
\* stats of generate_random, the credits and the two items.
BossDraws ==
    { [base_health |-> 60, base_attack |-> 8, base_defense |-> 5,
       base_agility |-> 5, credits |-> 1000,
       items |-> <<SmallPotion, SmallPotion>>],
      [base_health |-> 90, base_attack |-> 15, base_defense |-> 8,
       base_agility |-> 8, credits |-> 3000,
       items |-> <<LargePotion, PhoenixDown>>] }

\* The players that enter an encounter: a new player, and a player who has
\* gained 1500 experience (level 6); each at full health or wounded.  One
\* inventory holds two Phoenix Downs, enough for two revivals in one fight.
BossPlayers ==
    LET fresh == { NewPlayer(w, inv) :
                     w \in WeaponChoices,
                     inv \in InventoryChoices \cup {<<SmallPotion>>, Repeat(PhoenixDown, 2)} }
        grown == { AddExperience(p, 1500) : p \in fresh }
    IN  UNION { {p, [p EXCEPT !.health = 40]} : p \in fresh \cup grown }

RECURSIVE SeqSum(_)
SeqSum(q) == IF q = <<>> THEN 0 ELSE q[1] + SeqSum(Tail(q))

\* The portal_battle_data record of lines 407-425 and 445-463, built from
\* the locals e; history is battle_history before the record is appended.
PortalBattleData(e, p, history, result, player_end_hp, npc_end_hp) ==
    [npc_name |-> "Portal Guardians",
     is_portal_boss |-> TRUE,
     level |-> e.level,
     turns |-> e.total_turns,
     player_start_hp |-> p.max_health,
     npc_start_hp |-> SeqSum([k \in 1..Len(bosses) |-> bosses[k].max_health]),
     phoenix_downs_used |->
         Cardinality({ k \in 1..Len(history) :
                         /\ k > Len(history) - Len(bosses)
                         /\ history[k].phoenix_downs_used > 0 }),
     result |-> result,
     player_end_hp |-> player_end_hp,
     npc_end_hp |-> npc_end_hp,
     credits_gained |-> e.total_credits_gained,
     items_found |-> e.items_found,
     experience_gained |-> 0,
     boss_battles |-> e.boss_battle_record,
     bosses_defeated |->
         Cardinality({ k \in 1..Len(e.battle_results) : e.battle_results[k] })]

\* Line 405: if not player.is_alive()
PlayerDefeatedNever(p) == FALSE
PlayerDefeated(p) == ~IsAlive(p)

\* all(battle_results)
AllResults(e) == \A k \in 1..Len(e.battle_results) : e.battle_results[k]

\* Lines 352-368: the item prompt before the first guardian, then the
\* locals of the sequence of fights.
BossPrompt ==
    /\ pc = "boss_prompt"
    /\ \E use \in BOOLEAN, choice \in ItemChoices :
         LET u == IF use THEN HandleItemUsage(player, game_stats, choice)
                  ELSE [player |-> player, game_stats |-> game_stats,
                        result |-> "None"]
         IN  /\ ~use => choice = 0
             /\ player' = u.player
             /\ game_stats' = u.game_stats
             /\ enc' = [enc EXCEPT !.i = 1,
                                   !.remaining_health = u.player.health]
    /\ pc' = "boss_fight"
    /\ UNCHANGED <<npc, bosses, cur, npcs, grid, combo_count,
                   combo_multiplier, battle_history, battle_data, calls, td,
                   last,
                   player_pos, portal_window, gg, search>>
    /\ UNCHANGED <<gui, ts, saves>>

\* Lines 370-380 and battle() lines 116-138 for boss number enc.i: the
\* player's health is set to remaining_health, then battle() begins.
BossStartFight ==
    /\ pc = "boss_fight"
    /\ LET p1 == [player EXCEPT !.health = enc.remaining_health]
           boss == bosses[enc.i]
       IN  /\ battle_data' = NewBattleData(p1, boss, enc.i)
           /\ player' = ResetHealth(p1)
           /\ bosses' = [bosses EXCEPT ![enc.i] = ResetHealth(boss)]
    /\ cur' = enc.i
    /\ calls' = calls + 1
    /\ pc' = "player_turn"
    /\ UNCHANGED <<npc, npcs, grid, combo_count, combo_multiplier,
                   game_stats, battle_history, td, last, enc, player_pos, portal_window, gg, search>>
    /\ UNCHANGED <<gui, ts, saves>>

\* Lines 381-479: what follows the return of battle().  result is what
\* battle() returned: True with the record 'Victory', False with 'Defeat'.
BossAfterFight ==
    /\ pc = "boss_after"
    /\ LET recent_battle == Last(battle_history)
           result == recent_battle.result = "Victory"
           e1 == [enc EXCEPT
                    !.battle_results = Append(@, result),
                    !.total_turns = @ + recent_battle.turns,
                    !.total_credits_gained =
                        IF result THEN @ + recent_battle.credits_gained ELSE @,
                    !.items_found =
                        IF result THEN @ \o recent_battle.items_found ELSE @,
                    !.boss_battle_record =
                        Append(@, [boss_name |-> FoeName(enc.i),
                                   result |-> recent_battle.result,
                                   turns |-> recent_battle.turns,
                                   player_end_hp |-> recent_battle.player_end_hp,
                                   boss_end_hp |-> recent_battle.npc_end_hp]),
                    !.remaining_health = player.health]
           boss_end == SeqSum([k \in 1..Len(e1.boss_battle_record) |->
                                 e1.boss_battle_record[k].boss_end_hp])
       IN  IF PlayerDefeated(player)
           THEN /\ battle_history' =
                     Append(battle_history,
                            PortalBattleData(e1, player, battle_history,
                                             "Defeat", 0, boss_end))
                /\ last' = [op |-> "battle_portal_boss", choice |-> 0,
                            result |-> "False"]
                /\ enc' = BlankEnc
                /\ cur' = 0
                /\ pc' = "idle"
                /\ UNCHANGED <<player, game_stats>>
           ELSE IF enc.i < Len(bosses)
           THEN /\ \E use \in BOOLEAN, choice \in ItemChoices :
                     LET u == IF use
                              THEN HandleItemUsage(player, game_stats, choice)
                              ELSE [player |-> player,
                                    game_stats |-> game_stats,
                                    result |-> "None"]
                     IN  /\ ~use => choice = 0
                         /\ player' = u.player
                         /\ game_stats' = u.game_stats
                /\ enc' = [e1 EXCEPT !.i = @ + 1]
                /\ cur' = 0
                /\ pc' = "boss_fight"
                /\ UNCHANGED <<battle_history, last>>
           ELSE /\ battle_history' =
                     Append(battle_history,
                            PortalBattleData(
                                e1, player, battle_history,
                                IF AllResults(e1) THEN "Victory"
                                                  ELSE "Partial Victory",
                                player.health,
                                IF AllResults(e1) THEN 0 ELSE boss_end))
                /\ IF AllResults(e1)
                   THEN /\ \E d \in RewardDraws :
                             /\ d.level = enc.level
                             /\ player' = AwardPortalBossRewards(player, d)
                        /\ game_stats' =
                             [game_stats EXCEPT
                                !.portal_bosses_defeated = @ + 1]
                        /\ last' = [op |-> "battle_portal_boss",
                                    choice |-> 0, result |-> "True"]
                   ELSE /\ UNCHANGED <<player, game_stats>>
                        /\ last' = [op |-> "battle_portal_boss",
                                    choice |-> 0, result |-> "False"]
                /\ enc' = BlankEnc
                /\ cur' = 0
                /\ pc' = "idle"
    /\ UNCHANGED <<npc, bosses, npcs, grid, combo_count, combo_multiplier,
                   battle_data, calls, td, player_pos, portal_window, gg, search>>
    /\ UNCHANGED <<gui, ts, saves>>

InitBoss ==
    /\ player \in BossPlayers
    /\ \E level \in PortalLevels :
         /\ enc = [BlankEnc EXCEPT !.level = level]
         /\ bosses \in { <<BuildBoss(player, level, 1, d1),
                            BuildBoss(player, level, 2, d2)>> :
                            d1 \in BossDraws, d2 \in BossDraws }
    /\ npc = NewNPC(30, 10, 3, 5, 1, FALSE, 63, <<>>)
    /\ cur = 0
    /\ npcs = << <<2, "npc">> >>
    /\ grid = [c \in GridCells |->
                  IF c = 1 THEN "@" ELSE IF c = 2 THEN "E" ELSE EmptySymbol]
    /\ combo_count = InitialComboCount
    /\ combo_multiplier = MultOf(InitialComboCount)
    /\ game_stats = [BlankStats EXCEPT !.portal_boss_attempts = 1]
    /\ battle_history = <<>>
    /\ battle_data = BlankData
    /\ pc = "boss_prompt"
    /\ calls = 0
    /\ td = BlankTd
    /\ last = BlankLast
    /\ player_pos = 0
    /\ portal_window = "none"
    /\ gg = BlankGG
    /\ search = BlankSearch
    /\ gui = BlankGui /\ ts = BlankTs /\ saves = BlankSaves

NextBoss ==
    \/ BossPrompt
    \/ BossStartFight
    \/ PlayerAttacks
    \/ NpcAttacks
    \/ BossAfterFight

SpecBoss == InitBoss /\ [][NextBoss]_vars

(***************************************************************************)
(* Properties.                                                             *)
(***************************************************************************)


\* A step that concludes a battle: it appends the outcome record.
Concludes == Len(battle_history') = Len(battle_history) + 1
Outcome == Last(battle_history')

\* C1: a battle concludes as Victory iff the NPC's health is 0 at its end,
\* and as Defeat iff the player's health is 0 at its end (no revival).
C1_OutcomeMatchesHealth ==
    \A i \in 1..Len(battle_history) :
        /\ battle_history[i].result = "Victory"
              <=> battle_history[i].npc_end_hp = 0
        /\ battle_history[i].result = "Defeat"
              <=> battle_history[i].player_end_hp = 0

\* C2: every round starts with the player's attack, the NPC attacks only
\* after it and only while its health is above 0, and the step in which the
\* player's attack brings the NPC to 0 ends the battle without changing the
\* player's health.
C2_PlayerFirstNoLastAttack ==
    [][ /\ (pc = "idle" /\ pc' # "idle") => pc' = "player_turn"
        /\ pc' = "npc_turn" =>
              pc = "player_turn" /\ Foe'.health < Foe.health
        /\ battle_data'.turns # battle_data.turns /\ pc' # "idle" =>
              pc = "player_turn" /\ battle_data'.turns = battle_data.turns + 1
        /\ (pc # "idle" /\ player'.health # player.health) =>
              pc = "npc_turn" /\ Foe.health > 0
        /\ (pc = "player_turn" /\ Foe'.health = 0) =>
              pc' = "idle" /\ player'.health = player.health ]_vars

\* A battle of at least two rounds was ended by the player's attack, after
\* the NPC had hit the player in an earlier round.
C2_Witness ==
    /\ pc = "idle"
    /\ Len(battle_history) > 0
    /\ Last(battle_history).npc_end_hp = 0
    /\ Last(battle_history).turns >= 2
    /\ Last(battle_history).player_end_hp < player.max_health

C4_TakeDamageFloored ==
    td.variant = "Character" =>
        /\ td.returned = Max(1, td.raw - td.defense)
        /\ td.health = Max(0, td.before - td.returned)
        /\ td.before > 0 => td.health < td.before

\* C5: the player and the NPC always satisfy 0 <= health <= max_health.
C5_HealthBounds ==
    /\ 0 <= player.health /\ player.health <= player.max_health
    /\ 0 <= npc.health /\ npc.health <= npc.max_health

\* The player was damaged, then received the max-health boost of the portal
\* rewards, and the NPC has respawned.
C5_Witness ==
    /\ calls = MaxOps
    /\ player.max_health = 110
    /\ player.health < 100
    /\ npc.health = npc.max_health

C7_ComboSteps ==
    [][ Concludes =>
          /\ Outcome.result = "Victory" =>
                /\ combo_count' = combo_count + 1
                /\ combo_multiplier' > combo_multiplier
          /\ Outcome.result = "Defeat" => combo_count' = 0 ]_vars

\* Two victories in a row, then a defeat.
C7_Witness ==
    /\ Len(battle_history) = 3
    /\ battle_history[1].result = "Victory"
    /\ battle_history[2].result = "Victory"
    /\ battle_history[3].result = "Defeat"
    /\ combo_count = 0

\* C8: when a battle concludes, combo_count is a natural number and
\* combo_multiplier is 1.0 + 0.1 * combo_count (10 + combo_count tenths), and
\* only a step that concludes a battle changes either of them.
C8_ComboConsistent ==
    [][ /\ Concludes => /\ combo_count' \in Nat
                        /\ combo_multiplier' = 10 + combo_count'
        /\ (combo_count' # combo_count
              \/ combo_multiplier' # combo_multiplier) => Concludes ]_vars

\* A third battle is running after two victories.
C8_Witness ==
    /\ combo_count = 2
    /\ combo_multiplier = 12
    /\ pc = "npc_turn"

\* C9: a Victory adds baseCredits + floor(baseCredits * (multiplier - 1)),
\* baseCredits = floor(npc.credits * 0.08), to the player's credits, to
\* total_credits_earned and as credits_gained; the multiplier is the one in
\* effect when the reward is computed, (10 + combo_count') / 10.
C9_ExactReward ==
    [][ (Concludes /\ Outcome.result = "Victory") =>
          LET baseCredits == (Foe.credits * 8) \div 100
              amount == baseCredits
                          + (baseCredits * (combo_multiplier' - 10)) \div 10
          IN  /\ player'.credits = player.credits + amount
              /\ Outcome.credits_gained = amount
              /\ game_stats'.total_credits_earned
                    = game_stats.total_credits_earned + amount ]_vars

\* C10 as stated: the reward of a Victory that follows a Defeat has no combo
\* bonus (multiplier 1.0).
C10_NoBonusAfterDefeat ==
    [][ (/\ Concludes
         /\ Outcome.result = "Victory"
         /\ Len(battle_history) > 0
         /\ Last(battle_history).result = "Defeat") =>
          Outcome.credits_gained = (Foe.credits * 8) \div 100 ]_vars

\* C10 amended: a Victory that follows a Defeat is rewarded with multiplier
\* 1.1: combo_count has become 1 before the reward is computed, and the
\* bonus is a tenth of the base reward, rounded down.
C10_FirstBonusAfterDefeat ==
    [][ (/\ Concludes
         /\ Outcome.result = "Victory"
         /\ Len(battle_history) > 0
         /\ Last(battle_history).result = "Defeat") =>
          LET baseCredits == (Foe.credits * 8) \div 100
          IN  /\ combo_count = 0
              /\ combo_multiplier' = 11
              /\ Outcome.credits_gained
                    = baseCredits + baseCredits \div 10 ]_vars

\* A Defeat was followed by a Victory whose reward holds a combo bonus.
C10_Witness ==
    \E i \in 1..(Len(battle_history) - 1) :
        /\ battle_history[i].result = "Defeat"
        /\ battle_history[i + 1].result = "Victory"
        /\ battle_history[i + 1].credits_gained >= 11

\* C11: a battle recorded as Defeat transfers creditLoss =
\* floor(player.credits * 0.08) from the player to the NPC: the NPC gains it,
\* the player loses it, and the sum of both credits is unchanged.
C11_DefeatTransfersCredits ==
    [][ (Concludes /\ Outcome.result = "Defeat") =>
          LET creditLoss == (player.credits * 8) \div 100
          IN  /\ Foe'.credits = Foe.credits + creditLoss
              /\ player'.credits = player.credits - creditLoss
              /\ player'.credits + Foe'.credits
                    = player.credits + Foe.credits ]_vars

\* C12: a battle recorded as Victory appends the NPC's inventory, in its
\* order, to the player's inventory and records exactly those names, in
\* that order, as items_found; the NPC's drops list plays no part.
C12_InventoryTransferred ==
    [][ (Concludes /\ Outcome.result = "Victory") =>
          /\ player'.inventory = player.inventory \o Foe.inventory
          /\ Outcome.items_found = Foe.inventory ]_vars

\* A Victory over an NPC that carried two different items and had another
\* item in its drops list: the player holds both, in the NPC's order.
C12_Witness ==
    /\ Len(battle_history) >= 1
    /\ battle_history[1].result = "Victory"
    /\ battle_history[1].items_found = <<SmallPotion, PhoenixDown>>
    /\ npc.drops = <<LargePotion>>
    /\ Len(player.inventory) >= 2
    /\ SubSeq(player.inventory, Len(player.inventory) - 1,
              Len(player.inventory)) = <<SmallPotion, PhoenixDown>>

\* A step that is a direct call of the method named op.
Called(op) == calls' = calls + 1 /\ last'.op = op

\* C13: handle_phoenix_down on a fallen player: with a Phoenix Down in the
\* inventory and the use confirmed, exactly one Phoenix Down is removed,
\* health becomes max_health and the result is true; without a Phoenix Down
\* or with the use declined the result is false and the player is unchanged.
C13_PhoenixDownRevival ==
    [][ (Called("handle_phoenix_down") /\ ~IsAlive(player)) =>
          IF Has(player.inventory, PhoenixDown) /\ last'.choice = 1
          THEN /\ last'.result = "True"
               /\ player'.health = player.max_health
               /\ Len(player'.inventory) = Len(player.inventory) - 1
               /\ Count(player'.inventory, PhoenixDown)
                     = Count(player.inventory, PhoenixDown) - 1
               /\ player' = [player EXCEPT !.health = player'.health,
                                           !.inventory = player'.inventory]
          ELSE /\ last'.result = "False"
               /\ player' = player ]_vars

\* The player fell under two attacks and accepted the revival.
C13_Witness ==
    /\ last.op = "handle_phoenix_down"
    /\ last.result = "True"
    /\ calls = 3
    /\ player.health = player.max_health
    /\ ~Has(player.inventory, PhoenixDown)

\* C14: on a player whose health is above 0 no revival path
\* (handle_phoenix_down, RevivePotion.use, a Phoenix Down chosen in the item
\* menu) succeeds or changes the player's health or inventory.
C14_NoRevivalOfTheLiving ==
    [][ (/\ IsAlive(player)
         /\ \/ Called("handle_phoenix_down")
            \/ Called("RevivePotion.use")
            \/ /\ Called("_handle_item_usage")
               /\ last'.choice \in 1..Len(player.inventory)
               /\ player.inventory[last'.choice] = PhoenixDown) =>
          /\ last'.result # "True"
          /\ player'.health = player.health
          /\ player'.inventory = player.inventory ]_vars

\* C15: battle_portal_boss returns success, and awards the portal rewards,
\* exactly when both bosses were brought to health 0 with the player alive;
\* in every other case it returns failure and awards nothing.
C15_SuccessIffBothDefeated ==
    last.op = "battle_portal_boss" =>
        LET both == /\ Len(bosses) = 2
                    /\ bosses[1].health = 0
                    /\ bosses[2].health = 0
                    /\ IsAlive(player)
        IN  /\ last.result \in {"True", "False"}
            /\ last.result = "True" <=> both
            /\ game_stats.portal_bosses_defeated > 0 <=> both

grid_depth == 3

max_level == grid_depth - 1

\* what lies in the direction of a move
MoveTargets == {"outside", "portal", "empty"}

\* GameGUI.move_player, with the answer to the low-energy prompt
MovePlayer ==
    /\ portal_window = "none"
    /\ \E target \in MoveTargets, buy \in BOOLEAN :
         IF player.energy <= 0 \/ target = "outside"
         THEN /\ ~buy
              /\ UNCHANGED <<player, portal_window, gg, search>>
         ELSE IF target = "portal"
         THEN /\ ~buy
              /\ portal_window' = IF player.energy >= 2 THEN "portal"
                                                        ELSE "none"
              /\ UNCHANGED player
         ELSE LET e == player.energy - 1
              IN  /\ buy => e <= 2
                  /\ player' =
                       IF buy /\ player.credits >= 10
                       THEN [player EXCEPT !.credits = @ - 10,
                                           !.energy = player.max_energy]
                       ELSE [player EXCEPT !.energy = e]
                  /\ UNCHANGED portal_window
    /\ UNCHANGED <<npc, bosses, cur, npcs, grid, combo_count,
                   combo_multiplier, game_stats, battle_history, battle_data,
                   pc, calls, td, last, enc, player_pos, gg, search>>
    /\ UNCHANGED <<gui, ts, saves>>

\* The buttons open_portal_dialog shows: "1" down, "2" up.
PortalButtons ==
    (IF player_pos > 0 THEN {"1"} ELSE {}) \cup
    (IF player_pos < max_level THEN {"2"} ELSE {})

\* handle_portal_movement: the level always changes, down for "1", else up.
HandlePortalMovement(action) ==
    IF action = "1" THEN player_pos - 1 ELSE player_pos + 1

\* A button of the dialog open_portal_dialog built.  Cancel destroys the
\* window; the others run handle_portal_action, which destroys the window
\* and hands the action to handle_command, which calls
\* handle_portal_movement.
PortalDialogButton ==
    /\ portal_window = "portal"
    /\ \E action \in PortalButtons \cup {"cancel"} :
         player_pos' = IF action = "cancel" THEN player_pos
                       ELSE HandlePortalMovement(action)
    /\ portal_window' = "none"
    /\ UNCHANGED <<player, npc, bosses, cur, npcs, grid, combo_count,
                   combo_multiplier, game_stats, battle_history, battle_data,
                   pc, calls, td, last, enc, gg, search>>
    /\ UNCHANGED <<gui, ts, saves>>

InitPortal ==
    /\ player = NewPlayer(<<>>, <<>>)
    /\ npc = NewNPC(30, 10, 3, 5, 1, FALSE, 63, <<>>)
    /\ bosses = <<>>
    /\ cur = 0
    /\ npcs = << <<2, "npc">> >>
    /\ grid = [c \in GridCells |->
                  IF c = 1 THEN "@" ELSE IF c = 2 THEN "E" ELSE EmptySymbol]
    /\ combo_count = InitialComboCount
    /\ combo_multiplier = MultOf(InitialComboCount)
    /\ game_stats = BlankStats
    /\ battle_history = <<>>
    /\ battle_data = BlankData
    /\ pc = "idle"
    /\ calls = 0
    /\ td = BlankTd
    /\ last = BlankLast
    /\ enc = BlankEnc
    /\ player_pos = 0
    /\ portal_window = "none"
    /\ gg = BlankGG
    /\ search = BlankSearch
    /\ gui = BlankGui /\ ts = BlankTs /\ saves = BlankSaves

NextPortal ==
    \/ MovePlayer
    \/ PortalDialogButton

SpecPortal == InitPortal /\ [][NextPortal]_vars

\* C19: the player's dungeon level changes only when the player holds the
\* key of the target level or has just defeated both portal guardians, and
\* a level key is added only after both guardians are defeated.
C19_BossGate ==
    [][ LET both == /\ last'.op = "battle_portal_boss"
                    /\ last'.result = "True"
        IN  /\ player_pos' # player_pos =>
                  player_pos' \in player'.level_keys \/ both
            /\ player'.level_keys # player.level_keys => both ]_vars

grid_height == 2

grid_width == 3

Levels == 0..(grid_depth - 1)

Rows == 0..(grid_height - 1)

Cols == 0..(grid_width - 1)

Positions == Levels \X Rows \X Cols

PORTAL_SYMBOL == "@"

STORE_SYMBOL == "$"

\* Player.__init__: symbol='@'
PlayerSymbol == "@"

\* the growth stage a crop shows on the grid
CropSymbol == "*"

NpcPositions(g) == { g.npcs[k][1] : k \in 1..Len(g.npcs) }

\* GridGame.populate_grid_for_level: the level is blanked, then portal,
\* stores, NPCs and crops are drawn (each only on a cell still blank), and
\* the player last.
PopulateGridForLevel(g, level) ==
    IF level \notin Levels THEN g
    ELSE [g EXCEPT !.grid =
            [p \in Positions |->
               IF p[1] # level THEN g.grid[p]
               ELSE IF p = g.player_pos THEN PlayerSymbol
               ELSE IF p = g.portal_pos THEN PORTAL_SYMBOL
               ELSE IF p \in g.store_pos THEN STORE_SYMBOL
               ELSE IF p \in NpcPositions(g) THEN "E"
               ELSE IF p \in g.planted_crops THEN CropSymbol
               ELSE EmptySymbol]]

\* A game as GridGame.__init__ or GridGame.load_game leaves it: the
\* positions are set, then the grid of the player's level is populated.
NewGridGame(player_pos_, portal_pos, store_pos, npc_list, planted_crops) ==
    PopulateGridForLevel(
        [grid |-> [p \in Positions |-> EmptySymbol], npcs |-> npc_list,
         player_pos |-> player_pos_, portal_pos |-> portal_pos,
         store_pos |-> store_pos, planted_crops |-> planted_crops],
        player_pos_[1])

OnLevel(level) == { p \in Positions : p[1] = level }

\* a list holding each position of the set once, tagged "other"
RECURSIVE OtherNpcs(_)
OtherNpcs(ps) ==
    IF ps = {} THEN <<>>
    ELSE LET p == CHOOSE q \in ps : TRUE
         IN  << <<p, "other">> >> \o OtherNpcs(ps \ {p})

\* max_attempts of find_random_empty_spot
max_attempts == grid_height * grid_width * 2

\* The test of one drawn position in find_random_empty_spot, lines 991-999.
SpotAcceptedOnStore(g, pos) ==
    /\ g.grid[pos] = EmptySymbol
    /\ pos # g.player_pos
    /\ pos # g.portal_pos
    /\ pos \notin NpcPositions(g)
    /\ pos \notin g.planted_crops

SpotAccepted(g, pos) ==
    /\ g.grid[pos] = EmptySymbol
    /\ pos # g.player_pos
    /\ pos # g.portal_pos
    /\ pos \notin g.store_pos
    /\ pos \notin NpcPositions(g)
    /\ pos \notin g.planted_crops

\* first position paired with the followed NPC in game.npcs
GuiOriginalPos(g) ==
    g.npcs[CHOOSE k \in 1..Len(g.npcs) :
             /\ g.npcs[k][2] = "npc"
             /\ \A l \in 1..(k - 1) : g.npcs[l][2] # "npc"][1]

GuiInNpcs(g) == \E k \in 1..Len(g.npcs) : g.npcs[k][2] = "npc"

IsOtherEntry(e) == e[2] # "npc"

\* BattleWindow.handle_battle_end(result), lines 395-417, up to the call of
\* find_random_empty_spot; without a victory lines 430-437.  The window was
\* opened on an NPC of game.npcs, so original_pos is found.
HandleBattleEnd ==
    /\ pc = "idle"
    /\ calls < MaxRespawns
    /\ calls' = calls + 1
    /\ GuiInNpcs(gg)
    /\ \E result \in {"True", "False", "None"}, stat \in RespawnStats :
         IF result = "True"
         THEN LET original_pos == GuiOriginalPos(gg)
              IN  /\ gg' = [gg EXCEPT !.grid[original_pos] = EmptySymbol,
                                      !.npcs = SelectSeq(@, IsOtherEntry)]
                  /\ npc' = Respawn(npc, stat)
                  /\ search' = [BlankSearch EXCEPT
                                  !.caller = "handle_battle_end",
                                  !.level = original_pos[1],
                                  !.original_pos = original_pos,
                                  !.result = result]
                  /\ pc' = "find_spot"
                  /\ UNCHANGED last
         ELSE /\ stat = "attack"
              /\ search' = [BlankSearch EXCEPT !.caller = "handle_battle_end",
                                               !.result = result]
              /\ last' = [op |-> "on_battle_end", choice |-> 0,
                          result |-> result]
              /\ UNCHANGED <<gg, npc, pc>>
    /\ UNCHANGED <<player, bosses, cur, npcs, grid, combo_count,
                   combo_multiplier, game_stats, battle_history, battle_data,
                   td, enc, player_pos, portal_window>>
    /\ UNCHANGED <<gui, ts, saves>>

\* game.find_random_empty_spot(level) called on its own
OpFindRandomEmptySpot ==
    /\ pc = "idle"
    /\ gg # BlankGG
    /\ calls < MaxRespawns
    /\ calls' = calls + 1
    /\ \E level \in (-1)..grid_depth :
         IF level \notin Levels
         THEN /\ search' = [BlankSearch EXCEPT
                              !.caller = "find_random_empty_spot",
                              !.level = level, !.returned = TRUE]
              /\ last' = [op |-> "find_random_empty_spot", choice |-> level,
                          result |-> "None"]
              /\ UNCHANGED pc
         ELSE /\ search' = [BlankSearch EXCEPT
                              !.caller = "find_random_empty_spot",
                              !.level = level]
              /\ pc' = "find_spot"
              /\ UNCHANGED last
    /\ UNCHANGED <<player, npc, bosses, cur, npcs, grid, combo_count,
                   combo_multiplier, game_stats, battle_history, battle_data,
                   td, enc, player_pos, portal_window, gg>>
    /\ UNCHANGED <<gui, ts, saves>>

\* handle_battle_end lines 418-422 without the test of new_pos
PlaceRespawnedUnchecked(g, pos, symbol) ==
    IF pos = NoPos THEN [g EXCEPT !.npcs = Append(@, <<pos, "npc">>)]
    ELSE [g EXCEPT !.npcs = Append(@, <<pos, "npc">>), !.grid[pos] = symbol]

\* handle_battle_end lines 418-429: the NPC is listed and drawn at new_pos
\* when there is one; otherwise an error is logged.
PlaceRespawned(g, pos, symbol) ==
    IF pos = NoPos THEN g
    ELSE [g EXCEPT !.npcs = Append(@, <<pos, "npc">>), !.grid[pos] = symbol]

\* What the caller does with the position find_random_empty_spot returned:
\* handle_battle_end lines 418-437 place the NPC or log, then call
\* on_battle_end(result).
SpotReturned(pos) ==
    /\ search' = [search EXCEPT !.new_pos = pos, !.returned = TRUE]
    /\ pc' = "idle"
    /\ IF search.caller = "handle_battle_end"
       THEN /\ gg' = PlaceRespawned(gg, pos, npc.symbol)
            /\ last' = [op |-> "on_battle_end", choice |-> 0,
                        result |-> search.result]
       ELSE /\ UNCHANGED gg
            /\ last' = [op |-> "find_random_empty_spot",
                        choice |-> search.level,
                        result |-> IF pos = NoPos THEN "None" ELSE "pos"]

\* One pass of the loop of find_random_empty_spot, lines 985-1003, or its
\* end at lines 1005-1006.
FindRandomEmptySpot ==
    /\ pc = "find_spot"
    /\ IF search.attempts < max_attempts
       THEN \E r \in Rows, c \in Cols :
              LET pos == <<search.level, r, c>>
              IN  IF SpotAccepted(gg, pos)
                  THEN SpotReturned(pos)
                  ELSE /\ search' = [search EXCEPT !.attempts = @ + 1]
                       /\ UNCHANGED <<pc, gg, last>>
       ELSE SpotReturned(NoPos)
    /\ UNCHANGED <<player, npc, bosses, cur, npcs, grid, combo_count,
                   combo_multiplier, game_stats, battle_history, battle_data,
                   calls, td, enc, player_pos, portal_window>>
    /\ UNCHANGED <<gui, ts, saves>>

\* BattleSystem works on a game object of its own, not on a GridGame: it
\* runs where no GridGame was constructed.
\* _handle_victory(player, npc, battle_data) taken on its own, lines 187-233:
\* rewards, items, and for a listed NPC that is no boss the removal and the
\* respawn, up to the search loop.  Without a respawn lines 245-247 follow.
HandleVictory ==
    /\ pc = "idle"
    /\ gg = BlankGG
    /\ calls < MaxRespawns
    /\ calls' = calls + 1
    /\ cur' = 0
    /\ \E stat \in RespawnStats :
         LET credit_reward == CreditReward(npc, combo_multiplier)
             rec == [NewBattleData(player, npc, 0) EXCEPT
                       !.result = "Victory",
                       !.credits_gained = credit_reward,
                       !.items_found = ItemsTransferred(npc)]
         IN  /\ player' = [player EXCEPT
                             !.credits = @ + credit_reward,
                             !.inventory = @ \o ItemsTransferred(npc)]
             /\ game_stats' = [game_stats EXCEPT
                                 !.monsters_killed = @ + 1,
                                 !.battles_won = @ + 1,
                                 !.total_credits_earned = @ + credit_reward]
             /\ IF ~npc.is_boss /\ InNpcs(npcs)
                THEN /\ grid' = [grid EXCEPT ![PosInNpcs(npcs)] = EmptySymbol]
                     /\ npcs' = RemoveNpc(npcs)
                     /\ npc' = Respawn(npc, stat)
                     /\ battle_data' = rec
                     /\ search' = [BlankSearch EXCEPT
                                     !.caller = "_handle_victory",
                                     !.original_pos = <<PosInNpcs(npcs)>>]
                     /\ pc' = "victory_search"
                     /\ UNCHANGED <<battle_history, last>>
                ELSE /\ stat = "attack"
                     /\ battle_history' = Append(battle_history, rec)
                     /\ search' = [BlankSearch EXCEPT
                                     !.caller = "_handle_victory",
                                     !.returned = TRUE]
                     /\ last' = [op |-> "_handle_victory", choice |-> 0,
                                 result |-> "True"]
                     /\ UNCHANGED <<grid, npcs, npc, battle_data, pc>>
    /\ UNCHANGED <<bosses, combo_count, combo_multiplier, td, enc, player_pos,
                   portal_window, gg>>
    /\ UNCHANGED <<gui, ts, saves>>

\* One pass of the loop at lines 236-242: a cell is drawn; an empty one
\* takes the NPC and lines 243-247 end the call, any other starts the next
\* pass.  attempts counts the passes; the code keeps no such count.
HandleVictorySearch ==
    /\ pc = "victory_search"
    /\ \E cell \in GridCells :
         IF IsPositionEmpty(grid, cell)
         THEN /\ grid' = [grid EXCEPT ![cell] = npc.symbol]
              /\ npcs' = Append(npcs, <<cell, "npc">>)
              /\ battle_history' = Append(battle_history, battle_data)
              /\ battle_data' = BlankData
              /\ search' = [search EXCEPT !.new_pos = <<cell>>,
                                          !.returned = TRUE]
              /\ last' = [op |-> "_handle_victory", choice |-> 0,
                          result |-> "True"]
              /\ pc' = "idle"
         ELSE /\ search.attempts < MaxDraws
              /\ search' = [search EXCEPT !.attempts = @ + 1]
              /\ UNCHANGED <<grid, npcs, battle_history, battle_data, last,
                             pc>>
    /\ UNCHANGED <<player, npc, bosses, cur, combo_count, combo_multiplier,
                   game_stats, calls, td, enc, player_pos, portal_window, gg>>
    /\ UNCHANGED <<gui, ts, saves>>

\* The NPCs a respawn is examined with: the scenario NPC and a boss.
RespawnNpcs ==
    { NewNPC(30, 10, 3, 5, 1, FALSE, 63, <<>>),
      GenerateRandom(1, TRUE, [base_health |-> 60, base_attack |-> 8,
                               base_defense |-> 5, base_agility |-> 5,
                               credits |-> 130]) }

\* A new game has the player at [0, grid_height // 2, grid_width // 2]; a
\* loaded one may have the player on another level.  The portal and the
\* NPCs are on the player's level, and not on the player; place_npcs runs
\* before place_stores, so a store may share its cell with an NPC; a crop
\* may lie under an NPC that handle_portal_movement placed.  The GUI never
\* lists a boss in game.npcs.
InitRespawn ==
    /\ player = NewPlayer(<<>>, <<>>)
    /\ npc \in RespawnNpcs
    /\ bosses = <<>>
    /\ cur = 0
    /\ npcs = << <<2, "npc">> >>
    /\ grid = [c \in GridCells |->
                  IF c = 1 THEN "@" ELSE IF c = 2 THEN "E" ELSE EmptySymbol]
    /\ combo_count = InitialComboCount
    /\ combo_multiplier = MultOf(InitialComboCount)
    /\ game_stats = BlankStats
    /\ battle_history = <<>>
    /\ battle_data = BlankData
    /\ pc = "idle"
    /\ calls = 0
    /\ td = BlankTd
    /\ last = BlankLast
    /\ enc = BlankEnc
    /\ portal_window = "none"
    /\ search = BlankSearch
    /\ \/ gg = BlankGG /\ player_pos = 0
       \/ \E pp \in {<<0, 1, 1>>, <<1, 0, 0>>} :
            /\ player_pos = pp[1]
            /\ \E portal \in {<<pp[1], 0, 1>>} :
                 \E n \in OnLevel(pp[1]) \ {pp, portal} :
                   \E os \in SUBSET (OnLevel(pp[1]) \ {pp, portal, n}) :
                     /\ Cardinality(os) \in {1, 2}
                     /\ \E stores \in {{}, {<<0, 0, 0>>}, {<<0, 0, 2>>}} :
                          \E crops \in {{}, {<<pp[1], 1, 0>>}} :
                            gg = NewGridGame(
                                   pp, portal, stores,
                                   IF npc.is_boss THEN OtherNpcs(os)
                                   ELSE << <<n, "npc">> >> \o OtherNpcs(os),
                                   crops)
    /\ gui = BlankGui /\ ts = BlankTs /\ saves = BlankSaves

NextRespawn ==
    \/ HandleBattleEnd
    \/ OpFindRandomEmptySpot
    \/ FindRandomEmptySpot
    \/ HandleVictory
    \/ HandleVictorySearch

SpecRespawn == InitRespawn /\ [][NextRespawn]_vars

(***************************************************************************)
(* Respawn of a defeated NPC: claims C21 to C25, under SpecRespawn.        *)
(***************************************************************************)
NpcEntries(list) == {k \in 1..Len(list) : list[k][2] = "npc"}

GuiRespawned ==
    /\ search.caller = "handle_battle_end"
    /\ search.returned
    /\ search.new_pos # NoPos

VictoryRespawned ==
    /\ search.caller = "_handle_victory"
    /\ search.returned
    /\ search.new_pos # NoPos

\* C21: after a victory over an NPC that is no boss and for which an empty
\* cell was found, the NPC is listed exactly once, on the level it was on,
\* the grid shows its symbol at the new cell and its former cell is cleared;
\* a boss is never respawned and never inserted into the position list.
C21_RespawnedOnce ==
    /\ [](GuiRespawned =>
            /\ Cardinality(NpcEntries(gg.npcs)) = 1
            /\ GuiOriginalPos(gg) = search.new_pos
            /\ search.new_pos[1] = search.original_pos[1]
            /\ gg.grid[search.new_pos] = npc.symbol
            /\ gg.grid[search.original_pos] = EmptySymbol)
    /\ [](VictoryRespawned =>
            /\ Cardinality(NpcEntries(npcs)) = 1
            /\ PosInNpcs(npcs) = search.new_pos[1]
            /\ grid[search.new_pos[1]] = npc.symbol
            /\ grid[search.original_pos[1]] = EmptySymbol)
    /\ [][npc.is_boss => /\ npc' = npc
                         /\ npcs' = npcs
                         /\ ~GuiInNpcs(gg')]_vars

\* C22: a respawned NPC is on the level it was defeated on, at a position
\* other than the one it was defeated at.
C22_RespawnElsewhere ==
    /\ GuiRespawned => /\ search.new_pos[1] = search.original_pos[1]
                       /\ search.new_pos # search.original_pos
    /\ VictoryRespawned => search.new_pos # search.original_pos

\* C23: a position find_random_empty_spot(level) returns is on the requested
\* level and inside the grid, its grid cell is empty, and it is not the
\* position of the player, the portal, a store, an NPC or a planted crop; for
\* a level outside the grid no position is returned.
C23_EmptySpotValid ==
    /\ [][(pc = "find_spot" /\ search'.returned /\ search'.new_pos # NoPos) =>
            LET p == search'.new_pos
            IN  /\ p[1] = search.level
                /\ p \in Positions
                /\ gg.grid[p] = EmptySymbol
                /\ p # gg.player_pos
                /\ p # gg.portal_pos
                /\ p \notin gg.store_pos
                /\ \A k \in 1..Len(gg.npcs) : gg.npcs[k][1] # p
                /\ p \notin gg.planted_crops]_vars
    /\ []((search.caller = "find_random_empty_spot" /\ search.level \notin Levels)
            => /\ search.returned
               /\ search.new_pos = NoPos
               /\ last.op = "find_random_empty_spot"
               /\ last.result = "None")

\* a search of a level holding stores and crops returned a position after
\* rejected draws
C23_Witness ==
    /\ last.op = "find_random_empty_spot"
    /\ last.result = "pos"
    /\ search.returned
    /\ search.new_pos \in Positions
    /\ search.attempts > 0
    /\ gg.store_pos # {}
    /\ gg.planted_crops # {}

\* C24: the respawn search ends within a bounded number of attempts, twice
\* the number of cells of the searched grid, in _handle_victory and in the
\* GUI alike.
C24_SearchBounded ==
    search.attempts <= 2 * (IF search.caller = "_handle_victory"
                            THEN Cardinality(GridCells)
                            ELSE grid_height * grid_width)

\* C25: when the search finds no empty cell nothing fails: the result is
\* still handed to the battle-end callback, and the NPC stays unplaced, in
\* no entry of the position list and with no symbol drawn on the grid.
C25_UnplacedWhenFull ==
    [][(pc = "find_spot" /\ search.caller = "handle_battle_end"
          /\ search'.returned /\ search'.new_pos = NoPos) =>
         /\ pc' = "idle"
         /\ last' = [op |-> "on_battle_end", choice |-> 0, result |-> "True"]
         /\ NpcEntries(gg'.npcs) = {}
         /\ gg'.grid = gg.grid
         /\ gg'.grid[search.original_pos] = EmptySymbol
         /\ npc' = npc]_vars

\* the GUI search gave up after max_attempts draws on a level whose cells are
\* all taken, and the callback got the victory
C25_Witness ==
    /\ search.caller = "handle_battle_end"
    /\ search.returned
    /\ search.new_pos = NoPos
    /\ search.attempts = max_attempts
    /\ last.op = "on_battle_end"
    /\ last.result = "True"
    /\ \A p \in OnLevel(search.level) : ~SpotAccepted(gg, p)

(***************************************************************************)
(* The battle history: claims C26 and C27, under SpecBoss.                 *)
(***************************************************************************)
FightRecords ==
    {k \in 1..Len(battle_history) :
        battle_history[k].npc_name # "Portal Guardians"}

AggregateRecords ==
    {k \in 1..Len(battle_history) :
        battle_history[k].npc_name = "Portal Guardians"}

InBattle == pc \in {"player_turn", "npc_turn"}

GetCreditValueNoBoss(n) == Max(1, 10 * n.level)

\* NPC.get_credit_value
GetCreditValue(n) ==
    LET base_credits == 10 * n.level
    IN  Max(1, IF n.is_boss THEN base_credits * 2 ELSE base_credits)

\* base_exp of lines 103-108, in tenths
ExpStatSum(n) ==
    2 * n.max_health + 20 * n.attack + 20 * n.defense + 10 * n.agility

\* (1 + (level - 1) * 0.1) of line 111, in tenths
ExpLevelMult(n) == 10 + (n.level - 1)

\* The <<base_exp, multiplier>> pairs (in tenths) of the NPCs examined for
\* which Python's double product falls just below the whole number the exact
\* product is: 85.0 * 1.4 = 118.99999999999999.
ProductsRoundedBelow == { <<850, 14>> }

\* base_exp after line 111, in thousandths
ScaledExp(n) ==
    ExpStatSum(n) * ExpLevelMult(n) * 10
      - (IF <<ExpStatSum(n), ExpLevelMult(n)>> \in ProductsRoundedBelow
         THEN 1 ELSE 0)

\* get_experience_value with the doubling applied before the maximum
GetExperienceValueDoubledInside(n) ==
    Max(20 * n.level * 1000,
        IF n.is_boss THEN ScaledExp(n) * 2 ELSE ScaledExp(n)) \div 1000

\* NPC.get_experience_value: lines 114-120 on the scaled base_exp
GetExperienceValue(n) ==
    LET base_exp == Max(20 * n.level * 1000, ScaledExp(n))
    IN  (IF n.is_boss THEN base_exp * 2 ELSE base_exp) \div 1000

\* <<health, attack, defense, agility>> of the NPCs examined: the scenario
\* NPC, a weak one, a strong one, and a boss as generate_random builds it
ValueStats ==
    { <<30, 10, 3, 5>>, <<10, 1, 1, 1>>, <<20, 30, 8, 5>>,
      <<120, 16, 10, 10>> }

ValueLevels == {1, 3, 5}

ValueNpcs ==
    { NewNPC(s[1], s[2], s[3], s[4], level, is_boss, 100 * level, <<>>) :
        s \in ValueStats, level \in ValueLevels, is_boss \in BOOLEAN }

\* npc.get_credit_value()
OpGetCreditValue ==
    /\ calls < MaxOps /\ calls' = calls + 1
    /\ last' = [op |-> "get_credit_value", choice |-> GetCreditValue(npc),
                result |-> "None"]
    /\ UNCHANGED <<player, npc, td>> /\ OpsFrame
    /\ UNCHANGED <<gui, ts, saves>>

\* npc.get_experience_value()
OpGetExperienceValue ==
    /\ calls < MaxOps /\ calls' = calls + 1
    /\ last' = [op |-> "get_experience_value",
                choice |-> GetExperienceValue(npc), result |-> "None"]
    /\ UNCHANGED <<player, npc, td>> /\ OpsFrame
    /\ UNCHANGED <<gui, ts, saves>>

InitValue ==
    /\ player = NewPlayer(<<>>, <<>>)
    /\ npc \in ValueNpcs
    /\ td = BlankTd
    /\ bosses = <<>>
    /\ cur = 0
    /\ npcs = << <<2, "npc">> >>
    /\ grid = [c \in GridCells |->
                  IF c = 1 THEN "@" ELSE IF c = 2 THEN "E" ELSE EmptySymbol]
    /\ combo_count = InitialComboCount
    /\ combo_multiplier = MultOf(InitialComboCount)
    /\ game_stats = BlankStats
    /\ battle_history = <<>>
    /\ battle_data = BlankData
    /\ pc = "idle"
    /\ calls = 0
    /\ last = BlankLast
    /\ player_pos = 0
    /\ portal_window = "none"
    /\ gg = BlankGG
    /\ search = BlankSearch
    /\ enc = BlankEnc
    /\ gui = BlankGui /\ ts = BlankTs /\ saves = BlankSaves

NextValue ==
    \/ OpGetCreditValue
    \/ OpGetExperienceValue

SpecValue == InitValue /\ [][NextValue]_vars

BossFactor(n) == IF n.is_boss THEN 2 ELSE 1

\* C28: get_credit_value returns max(1, 10 * level * (2 for a boss, else 1)),
\* 30 for a level-3 NPC and 60 for a level-3 boss; a repeated call returns
\* the same value, and no field of the NPC changes.
C28_CreditValue ==
    [][Called("get_credit_value") =>
         /\ last'.choice = Max(1, 10 * npc.level * BossFactor(npc))
         /\ npc.level = 3 => last'.choice = IF npc.is_boss THEN 60 ELSE 30
         /\ last.op = "get_credit_value" => last'.choice = last.choice
         /\ npc' = npc]_vars

\* the credit value of a level-3 boss was asked for twice in a row
C28_Witness ==
    /\ last.op = "get_credit_value"
    /\ last.choice = 60
    /\ npc.level = 3
    /\ npc.is_boss
    /\ calls >= 2

\* C29 as stated: the experience value is the floor of the maximum of
\* 20 * level and the scaled stat sum, the boss doubling applied to the stat
\* sum inside the maximum and not to the 20 * level floor.
C29_DoubledInsideMax ==
    last.op = "get_experience_value" =>
        LET m == Max(20 * npc.level * 1000, BossFactor(npc) * ScaledExp(npc))
        IN  /\ last.choice * 1000 <= m
            /\ m < (last.choice + 1) * 1000

\* C29 (amended): the experience value is the floor of the maximum of
\* 20 * level and the scaled stat sum, doubled as a whole for a boss, so
\* that a boss is worth at least 40 * level.  The product is Python's: the
\* NPC with stat sum 85.0 at level 5 is worth 118, not 119.
C29_DoubledAfterMax ==
    last.op = "get_experience_value" =>
        LET m == BossFactor(npc)
                   * Max(20 * npc.level * 1000, ScaledExp(npc))
        IN  /\ last.choice * 1000 <= m
            /\ m < (last.choice + 1) * 1000
            /\ npc.is_boss => last.choice >= 40 * npc.level
            /\ (npc.max_health = 20 /\ npc.level = 5 /\ ~npc.is_boss)
                 => last.choice = 118

\* the value of a level-3 boss whose stat sum lies under the floor: 120
C29_Witness ==
    /\ last.op = "get_experience_value"
    /\ npc.is_boss
    /\ npc.level = 3
    /\ ScaledExp(npc) < 20 * npc.level * 1000
    /\ last.choice = 120

(***************************************************************************)
(* Player.add_experience: claim C30, under SpecOps.                        *)
(***************************************************************************)
\* C30: for a player whose experience_to_next_level is level * 100,
\* add_experience(amount) with amount >= 0 ends with
\* 0 <= experience < experience_to_next_level = level * 100, one level gained
\* for each threshold crossed: the experience before plus amount is the
\* experience after plus the thresholds 100 * l of the levels l left behind.
C30_AddExperience ==
    [][(/\ Called("add_experience")
        /\ player.experience_to_next_level = player.level * 100
        /\ player.experience >= 0) =>
         /\ player'.experience >= 0
         /\ player'.experience < player'.experience_to_next_level
         /\ player'.experience_to_next_level = player'.level * 100
         /\ player'.level >= player.level
         /\ player.experience + last'.choice
              = player'.experience
                + 50 * (player'.level - player.level)
                     * (player.level + player'.level - 1)]_vars

\* two thresholds were crossed in one call: 60 + 250 = 100 + 200 + 10
C30_Witness ==
    /\ last.op = "add_experience"
    /\ last.choice = 250
    /\ player.level = 3
    /\ player.experience = 10
    /\ player.experience_to_next_level = 300

(***************************************************************************)
(* The NPC's inventory after a victory: claim C39, under Spec.             *)
(***************************************************************************)
\* C39: after a Victory the items handed to the player are no longer in the
\* defeated NPC's inventory, so a later victory over the same NPC hands over
\* nothing that was handed over before.
C39_ItemsLeaveNpc ==
    [][(Concludes /\ Outcome.result = "Victory") =>
         \A i \in 1..Len(Outcome.items_found) :
            ~Has(Foe'.inventory, Outcome.items_found[i])]_vars

(***************************************************************************)
(* environment.time_system.TimeSystem (SpecTime).  The time of day is kept *)
(* in minutes since midnight, the date is not followed; time_scale is kept *)
(* in tenths.                                                              *)
(***************************************************************************)
\* self.time_scale = 1.0, in tenths
time_scale == 10

daytime_start == 6

daytime_end == 20

MinutesPerDay == 24 * 60

\* TimeSystem.__init__ at the time of day now (minutes since midnight)
NewTimeSystem(now) ==
    [time_scale |-> time_scale, current_time |-> now,
     daytime_start |-> daytime_start, daytime_end |-> daytime_end]

\* advance_time(minutes, hours)
AdvanceTime(t, minutes, hours) ==
    [t EXCEPT !.current_time = (@ + minutes + 60 * hours) % MinutesPerDay]

\* set_time(hour): current_time.replace(hour=hour)
SetTime(t, hour) ==
    [t EXCEPT !.current_time = 60 * hour + (@ % 60)]

\* is_daytime()
IsDaytime(t) ==
    /\ t.daytime_start <= t.current_time \div 60
    /\ t.current_time \div 60 < t.daytime_end

TimeFrame ==
    UNCHANGED <<player, npc, bosses, cur, npcs, grid, combo_count,
                combo_multiplier, game_stats, battle_history, battle_data, pc,
                calls, td, enc, player_pos, portal_window, gg, search, gui,
                saves>>

\* time_system.advance_time(minutes=.., hours=..)
OpAdvanceTime ==
    /\ \E minutes \in {0, 5, 30}, hours \in {0, 1} :
         /\ minutes + hours > 0
         /\ ts' = AdvanceTime(ts, minutes, hours)
         /\ last' = [op |-> "advance_time", choice |-> minutes + 60 * hours,
                     result |-> BoolText(IsDaytime(AdvanceTime(ts, minutes,
                                                               hours)))]
    /\ TimeFrame

\* time_system.set_time(hour=..)
OpSetTime ==
    /\ \E hour \in {0, 6, 12, 20} :
         /\ ts' = SetTime(ts, hour)
         /\ last' = [op |-> "set_time", choice |-> hour,
                     result |-> BoolText(IsDaytime(SetTime(ts, hour)))]
    /\ TimeFrame

InitTime ==
    /\ player = NewPlayer(<<>>, <<>>)
    /\ npc = NewNPC(30, 10, 3, 5, 1, FALSE, 63, <<>>)
    /\ td = BlankTd
    /\ bosses = <<>>
    /\ cur = 0
    /\ npcs = << <<2, "npc">> >>
    /\ grid = [c \in GridCells |->
                  IF c = 1 THEN "@" ELSE IF c = 2 THEN "E" ELSE EmptySymbol]
    /\ combo_count = InitialComboCount
    /\ combo_multiplier = MultOf(InitialComboCount)
    /\ game_stats = BlankStats
    /\ battle_history = <<>>
    /\ battle_data = BlankData
    /\ pc = "idle"
    /\ calls = 0
    /\ last = BlankLast
    /\ player_pos = 0
    /\ portal_window = "none"
    /\ gg = BlankGG
    /\ search = BlankSearch
    /\ enc = BlankEnc
    /\ gui = BlankGui
    /\ saves = BlankSaves
    /\ ts \in { NewTimeSystem(now) : now \in {0, 7 * 60 + 10, 19 * 60 + 55} }

NextTime ==
    \/ OpAdvanceTime
    \/ OpSetTime

SpecTime == InitTime /\ [][NextTime]_vars

\* C35: a newly constructed environment TimeSystem has time scale 5.0, and
\* no method changes the scale.
C35_TimeScale == ts.time_scale = 50

(***************************************************************************)
(* The GUI's battles (SpecGui): GameGUI moves the player over a GridGame   *)
(* and opens a BattleWindow on the NPC the player walks into.  Two NPCs    *)
(* are on the player's level: the NPC a battle window was opened on last   *)
(* is the variable npc and is tagged "npc" in game.npcs, the other NPC is  *)
(* gui.other and is tagged "other"; opening a window on the other NPC      *)
(* exchanges the two.  The battle window is modal (grab_set), so the main  *)
(* window takes no key while it exists; the countdown runs on a timer.     *)
(* gui.window is "battle" while the action buttons are enabled and         *)
(* "result" once show_battle_result has put the Continue button there,     *)
(* gui.result is the argument that button passes on.  The player carries   *)
(* no item, the portal and store dialogs are closed as they were opened,   *)
(* and calls counts the handlers run.  A battle record keeps the fields    *)
(* player_won, turns, credits_gained and items_gained.                     *)
(***************************************************************************)
MaxGuiSteps == 7

\* GridGame.__init__, lines 316-319
NewGameStats ==
    [battles_won |-> 0, battles_lost |-> 0, monsters_killed |-> 0,
     total_credits_earned |-> 0, highest_level |-> 1,
     portal_bosses_defeated |-> 0]

\* record_battle with both counters raised on a win
RecordBattleStatsBoth(gs, level, player_won, credits_gained) ==
    [gs EXCEPT !.battles_won = @ + 1, !.battles_lost = @ + 1,
               !.total_credits_earned = @ + credits_gained]

\* GridGame.record_battle, lines 956-968: the statistics
RecordBattleStats(gs, level, player_won, credits_gained) ==
    IF player_won
    THEN [gs EXCEPT
            !.battles_won = @ + 1,
            !.total_credits_earned = @ + credits_gained,
            !.monsters_killed = @ + 1,
            !.highest_level = Max(@, level),
            !.portal_bosses_defeated = IF level = max_level THEN @ + 1 ELSE @]
    ELSE [gs EXCEPT !.battles_lost = @ + 1]

\* GridGame.record_battle, lines 944-954: the record appended
RecordBattleEntry(history, player_won, turns, credits_gained, items) ==
    Append(history, [player_won |-> player_won, turns |-> turns,
                     credits_gained |-> credits_gained,
                     items_gained |-> items])

\* the keys safe_handle_command takes for a move
Directions == {"w", "s", "a", "d"}

\* GridGame.get_target_position
GetTargetPosition(pos, direction) ==
    LET row == pos[2] + (IF direction = "w" THEN -1
                         ELSE IF direction = "s" THEN 1 ELSE 0)
        col == pos[3] + (IF direction = "a" THEN -1
                         ELSE IF direction = "d" THEN 1 ELSE 0)
    IN  IF row \in Rows /\ col \in Cols THEN <<pos[1], row, col>> ELSE NoPos

\* the tag of the first entry of game.npcs at the position
NpcTagAt(g, pos) ==
    g.npcs[CHOOSE k \in 1..Len(g.npcs) :
             /\ g.npcs[k][1] = pos
             /\ \A l \in 1..(k - 1) : g.npcs[l][1] # pos][2]

SwapTags(list) ==
    [k \in 1..Len(list) |->
       <<list[k][1], IF list[k][2] = "npc" THEN "other" ELSE "npc">>]

\* open_battle_window: a new BattleWindow, its turn 1, its buttons enabled
OpenBattleWindow(u) ==
    [u EXCEPT !.window = "battle", !.turn = 1, !.result = "None",
              !.countdown = FALSE]

\* GameGUI.handle_battle_end(result): the flags are cleared and the
\* countdown is started on current_battle_window
GuiHandleBattleEnd(u) ==
    [u EXCEPT !.battle_in_progress = FALSE, !.current_battle_npc = FALSE,
              !.countdown = TRUE]

\* BaseWindow.destroy: the timer chain ends with winfo_exists
DestroyWindow(u) == [u EXCEPT !.window = "none", !.countdown = FALSE]

GuiFrame ==
    /\ calls < MaxGuiSteps
    /\ calls' = calls + 1
    /\ UNCHANGED <<bosses, cur, npcs, grid, combo_count, combo_multiplier,
                   battle_data, pc, td, last, enc, player_pos, portal_window,
                   search, ts, saves>>

\* GameGUI.move_player(direction), with the answer to the low-energy prompt
MovePlayerTo(direction, answer) ==
    LET target == GetTargetPosition(gg.player_pos, direction)
    IN  IF \/ gui.battle_in_progress
           \/ player.energy <= 0
           \/ target = NoPos
           \/ target = gg.portal_pos
        THEN UNCHANGED <<player, npc, gg, gui>>
        ELSE IF target \in NpcPositions(gg)
        THEN IF player.energy >= 3
             THEN LET swap == NpcTagAt(gg, target) # "npc"
                      opened == OpenBattleWindow(
                                  [gui EXCEPT !.battle_in_progress = TRUE,
                                              !.current_battle_npc = TRUE])
                  IN  /\ npc' = IF swap THEN gui.other ELSE npc
                      /\ gui' = IF swap THEN [opened EXCEPT !.other = npc]
                                ELSE opened
                      /\ gg' = IF swap THEN [gg EXCEPT !.npcs = SwapTags(@)]
                               ELSE gg
                      /\ UNCHANGED player
             ELSE UNCHANGED <<player, npc, gg, gui>>
        ELSE LET e == player.energy - 1
             IN  /\ gg' = [gg EXCEPT !.player_pos = target]
                 /\ player' =
                      IF e <= 2 /\ answer /\ player.credits >= 10
                      THEN [player EXCEPT !.credits = @ - 10,
                                          !.energy = player.max_energy]
                      ELSE [player EXCEPT !.energy = e]
                 /\ UNCHANGED <<npc, gui>>

\* GameGUI.safe_handle_command(cmd) for a move key, with the answer to the
\* prompt it or move_player shows.  battle_in_progress and
\* current_battle_npc are set and cleared together, so the reset of lines
\* 347-350 is never reached.
SafeHandleCommand ==
    /\ gui.window = "none"
    /\ GuiFrame
    /\ UNCHANGED <<game_stats, battle_history>>
    /\ \E direction \in Directions, answer \in BOOLEAN :
         IF gui.battle_in_progress /\ gui.current_battle_npc
         THEN /\ gui' = IF answer THEN OpenBattleWindow(gui) ELSE gui
              /\ UNCHANGED <<player, npc, gg>>
         ELSE MovePlayerTo(direction, answer)

\* handle_attack, the victory block: rewards, record_battle, on_battle_end
\* and show_battle_result
AttackWon(p, n) ==
    LET credits_gain == GetCreditValue(n)
    IN  /\ player' = [AddExperience(p, GetExperienceValue(n))
                        EXCEPT !.credits = @ + credits_gain]
        /\ npc' = n
        /\ battle_history' = RecordBattleEntry(battle_history, TRUE, gui.turn,
                                               credits_gain, <<>>)
        /\ game_stats' = RecordBattleStats(game_stats, gg.player_pos[1], TRUE,
                                           credits_gain)
        /\ gui' = [GuiHandleBattleEnd(gui) EXCEPT !.window = "result",
                                                  !.result = "True"]

\* handle_attack, the end of a round: turn += 1, buttons enabled
AttackRoundOver(p, n) ==
    /\ player' = p
    /\ npc' = n
    /\ gui' = [gui EXCEPT !.turn = @ + 1]
    /\ UNCHANGED <<battle_history, game_stats>>

\* BattleWindow.handle_attack
HandleAttack ==
    /\ gui.window = "battle"
    /\ GuiFrame
    /\ UNCHANGED gg
    /\ IF player.agility >= npc.agility
       THEN LET n1 == NPCTakeDamage(npc, TotalAttack(player))
            IN  IF ~IsAlive(n1)
                THEN AttackWon(player, n1)
                ELSE AttackRoundOver(PlayerTakeDamage(player, TotalAttack(n1)),
                                     n1)
       ELSE LET p1 == PlayerTakeDamage(player, TotalAttack(npc))
                n1 == NPCTakeDamage(npc, TotalAttack(p1))
            IN  IF ~IsAlive(p1)
                THEN /\ player' = p1
                     /\ battle_history' =
                          RecordBattleEntry(battle_history, FALSE, gui.turn,
                                            0, <<>>)
                     /\ game_stats' = RecordBattleStats(
                                        game_stats, gg.player_pos[1], FALSE, 0)
                     /\ gui' = [GuiHandleBattleEnd(gui)
                                  EXCEPT !.window = "result",
                                         !.result = "False"]
                     /\ UNCHANGED npc
                ELSE IF ~IsAlive(n1)
                THEN AttackWon(p1, n1)
                ELSE AttackRoundOver(p1, n1)

\* BattleWindow.handle_run, with what random.random() < 0.5 gave
HandleRun ==
    /\ gui.window = "battle"
    /\ GuiFrame
    /\ UNCHANGED <<npc, gg, game_stats, battle_history>>
    /\ \E escaped \in BOOLEAN :
         IF escaped
         THEN /\ gui' = [gui EXCEPT !.window = "result", !.result = "None"]
              /\ UNCHANGED player
         ELSE LET p1 == PlayerTakeDamage(player, TotalAttack(npc))
              IN  /\ player' = p1
                  /\ gui' = IF IsAlive(p1) THEN gui
                            ELSE [gui EXCEPT !.window = "result",
                                             !.result = "False"]

\* The Continue button: BattleWindow.handle_battle_end(result).  The search
\* of find_random_empty_spot ends with an accepted position of the level or,
\* when no draw hit one, with None.
ContinueButton ==
    /\ gui.window = "result"
    /\ GuiFrame
    /\ UNCHANGED <<player, game_stats, battle_history>>
    /\ gui' = DestroyWindow(GuiHandleBattleEnd(gui))
    /\ IF gui.result = "True" /\ GuiInNpcs(gg)
       THEN \E stat \in RespawnStats :
              LET original_pos == GuiOriginalPos(gg)
                  cleared == [gg EXCEPT !.grid[original_pos] = EmptySymbol,
                                        !.npcs = SelectSeq(@, IsOtherEntry)]
                  spots == { p \in OnLevel(original_pos[1]) :
                               SpotAccepted(cleared, p) }
              IN  /\ npc' = Respawn(npc, stat)
                  /\ \E new_pos \in spots \cup {NoPos} :
                       gg' = PlaceRespawned(cleared, new_pos, npc.symbol)
       ELSE UNCHANGED <<npc, gg>>

\* GameGUI.handle_battle_window_close, with the answer to its prompt
HandleBattleWindowClose ==
    /\ gui.window # "none"
    /\ GuiFrame
    /\ UNCHANGED <<player, npc, gg, game_stats, battle_history>>
    /\ \E answer \in BOOLEAN :
         gui' = IF gui.battle_in_progress /\ ~answer THEN gui
                ELSE DestroyWindow(gui)

\* start_battle_window_countdown at 0 seconds
CountdownExpires ==
    /\ gui.countdown
    /\ gui.window # "none"
    /\ GuiFrame
    /\ UNCHANGED <<player, npc, gg, game_stats, battle_history>>
    /\ gui' = DestroyWindow(gui)

\* the NPCs of the GUI's games: generate_random(level) with the least and
\* with the greatest base stats
GuiNpc(level, strong) ==
    GenerateRandom(level, FALSE,
                   IF strong
                   THEN [base_health |-> 90, base_attack |-> 15,
                         base_defense |-> 8, base_agility |-> 8,
                         credits |-> 200]
                   ELSE [base_health |-> 60, base_attack |-> 8,
                         base_defense |-> 5, base_agility |-> 5,
                         credits |-> 50])

\* A game in play or loaded from a save: the player on the first or on the
\* last level, unhurt or nearly beaten, with little energy left; the weak
\* NPC hurt by earlier rounds, the strong one too.
InitGui ==
    /\ \E health \in {100, 3} :
         player = [NewPlayer(<<>>, <<>>) EXCEPT !.health = health,
                                                !.energy = 5]
    /\ bosses = <<>>
    /\ cur = 0
    /\ npcs = << <<2, "npc">> >>
    /\ grid = [c \in GridCells |->
                  IF c = 1 THEN "@" ELSE IF c = 2 THEN "E" ELSE EmptySymbol]
    /\ combo_count = InitialComboCount
    /\ combo_multiplier = MultOf(InitialComboCount)
    /\ game_stats = NewGameStats
    /\ battle_history = <<>>
    /\ battle_data = BlankData
    /\ pc = "idle"
    /\ calls = 0
    /\ td = BlankTd
    /\ last = BlankLast
    /\ enc = BlankEnc
    /\ portal_window = "none"
    /\ search = BlankSearch
    /\ ts = BlankTs
    /\ saves = BlankSaves
    /\ \E level \in {0, max_level} :
         /\ player_pos = level
         /\ \E npc_health \in {5, 10} :
              npc = [GuiNpc(level, FALSE) EXCEPT !.health = npc_health]
         /\ gui = [BlankGui EXCEPT
                     !.other = [GuiNpc(level, TRUE) EXCEPT !.health = 4]]
         /\ \E n \in {<<level, 0, 1>>, <<level, 1, 0>>} :
              gg = NewGridGame(<<level, 1, 1>>, <<level, 0, 0>>,
                               IF level = 0 THEN {<<0, 0, 2>>} ELSE {},
                               << <<n, "npc">>, <<<<level, 1, 2>>, "other">> >>,
                               {})

NextGui ==
    \/ SafeHandleCommand
    \/ HandleAttack
    \/ HandleRun
    \/ ContinueButton
    \/ HandleBattleWindowClose
    \/ CountdownExpires

SpecGui == InitGui /\ [][NextGui]_vars

(***************************************************************************)
(* The GUI's battles: claims C31, C32, C37, C38 and C40, under SpecGui.    *)
(***************************************************************************)
\* a step in which record_battle ran
Recorded == Len(battle_history') # Len(battle_history)

\* C31: each call of GridGame.record_battle appends exactly one record to the
\* battle history and raises exactly one of battles_won and battles_lost, by
\* exactly 1; total_credits_earned grows by the record's credits_gained on a
\* win and stays as it is on a loss; the statistics change in no other step.
C31_RecordBattle ==
    [][ /\ Recorded =>
             LET r == Last(battle_history')
                 won == game_stats'.battles_won - game_stats.battles_won
                 lost == game_stats'.battles_lost - game_stats.battles_lost
                 earned == game_stats'.total_credits_earned
                              - game_stats.total_credits_earned
             IN  /\ battle_history' = Append(battle_history, r)
                 /\ won = (IF r.player_won THEN 1 ELSE 0)
                 /\ lost = (IF r.player_won THEN 0 ELSE 1)
                 /\ earned = (IF r.player_won THEN r.credits_gained ELSE 0)
        /\ ~Recorded => game_stats' = game_stats ]_vars

\* a battle won with credits gained and a battle lost are both on record
C31_Witness ==
    /\ Len(battle_history) = 2
    /\ battle_history[1].player_won
    /\ battle_history[1].credits_gained > 0
    /\ ~battle_history[2].player_won
    /\ game_stats.battles_won = 1
    /\ game_stats.battles_lost = 1
    /\ game_stats.total_credits_earned = battle_history[1].credits_gained

\* C40: portal_bosses_defeated changes only with the full success of a
\* portal boss encounter; the victories of the GUI's battles, none of which
\* is a portal boss encounter, leave it as it is.
C40_OrdinaryVictoryKeepsCount ==
    [][game_stats'.portal_bosses_defeated
         = game_stats.portal_bosses_defeated]_vars

\* C32: a player whose health is 0 cannot move: a move key leaves the
\* player's position as it was.
C32_DeadPlayerStays ==
    [][~IsAlive(player) => gg'.player_pos = gg.player_pos]_vars

\* C37: a battle of the BattleWindow ends as soon as the health of either
\* combatant reaches 0: a round after which the action buttons are enabled
\* for the next round leaves both combatants alive.
C37_NoRoundAfterDeath ==
    [][(gui.window = "battle" /\ gui'.window = "battle"
          /\ gui'.turn = gui.turn + 1)
         => IsAlive(player') /\ IsAlive(npc')]_vars

\* the health of the NPC of an entry of game.npcs
ListedHealth(e) == IF e[2] = "npc" THEN npc.health ELSE gui.other.health

\* C38: whenever no battle is in progress and the player can move, every NPC
\* listed in game.npcs has health above 0: after a victory the NPC is
\* respawned or removed before the main window takes a key again, however
\* Continue, the closing of the window and the countdown interleave.
C38_ListedNpcsAlive ==
    (~gui.battle_in_progress /\ gui.window = "none") =>
        \A k \in 1..Len(gg.npcs) : ListedHealth(gg.npcs[k]) > 0

(***************************************************************************)
(* Saving and loading (SpecSave).  The game is the player, the GridGame    *)
(* gg with its farming_stats, game_stats and battle_history.  A save file  *)
(* holds the dictionary to_dict builds, which json.dump and json.load      *)
(* carry unchanged for the integers, strings, booleans and lists it is     *)
(* made of; saves.files maps every slot number tried to its file or to     *)
(* NoFile, saves.loaded is what the last load_game returned, and           *)
(* saves.at_save remembers, per slot, the game at the time of the save.    *)
(* The time system, the weather and the survival statistics are not part   *)
(* of the model.                                                           *)
(***************************************************************************)
MaxSaveOps == 4

\* the slot numbers tried
SlotInputs == {0, 1, 4, 6}

\* no file of that name exists
NoFile == <<>>

\* None, where a game is expected
NoGame == <<>>

\* get_save_filename accepting every slot
GetSaveFilenameUnchecked(slot) == [raised |-> FALSE, slot |-> slot]

\* GridGame.get_save_filename(slot): the file of the slot, or ValueError
GetSaveFilename(slot) ==
    IF ~(1 <= slot /\ slot <= 5) THEN [raised |-> TRUE, slot |-> slot]
    ELSE [raised |-> FALSE, slot |-> slot]

\* GridGame.__init__, lines 306-310
NewFarmingStats ==
    [crops_planted |-> 0, crops_harvested |-> 0, total_crop_value |-> 0,
     farming_level |-> 1, farming_exp |-> 0, farming_exp_to_next |-> 100]

\* calculate_farming_exp_to_next: int(100 * (1.5 ** (level - 1)))
CalculateFarmingExpToNext(level) ==
    CASE level = 1 -> 100
      [] level = 2 -> 150
      [] level = 3 -> 225
      [] OTHER -> 337

\* add_farming_exp: the while loop of lines 545-550
RECURSIVE FarmingLevelUps(_)
FarmingLevelUps(fs) ==
    IF fs.farming_exp >= fs.farming_exp_to_next
    THEN FarmingLevelUps(
           [fs EXCEPT !.farming_level = @ + 1,
                      !.farming_exp = @ - fs.farming_exp_to_next,
                      !.farming_exp_to_next =
                          CalculateFarmingExpToNext(fs.farming_level + 1)])
    ELSE fs

\* GridGame.add_farming_exp(exp_gained)
AddFarmingExp(fs, exp_gained) ==
    FarmingLevelUps([fs EXCEPT !.farming_exp = @ + exp_gained])

\* the class of an item object, item.__class__.__name__
ItemClassName(item) ==
    CASE item = SmallPotion -> "SmallPotion"
      [] item = LargePotion -> "LargePotion"
      [] item = PhoenixDown -> "RevivePotion"

\* the keys of ITEM_CLASS_MAP
ITEM_CLASS_MAP ==
    {"Potion", "SmallPotion", "MediumPotion", "LargePotion", "RevivePotion",
     "EnergyPotion", "Weapon", "SickNote"}

\* Item.to_dict
ItemToDict(item) == [item_class |-> ItemClassName(item), name |-> item]

\* ItemFactory.create_item succeeds on the data
Creatable(data) == data.item_class \in ITEM_CLASS_MAP

\* Weapon.to_dict, None without a weapon
WeaponToDict(w) ==
    IF w = <<>> THEN <<>> ELSE [item_class |-> "Weapon", attack |-> w[1]]

\* Player.to_dict
PlayerToDict(p) ==
    [name |-> p.name, health |-> p.health, max_health |-> p.max_health,
     attack |-> p.attack, defense |-> p.defense, agility |-> p.agility,
     credits |-> p.credits, energy |-> p.energy, max_energy |-> p.max_energy,
     level_keys |-> p.level_keys, level |-> p.level,
     experience |-> p.experience,
     experience_to_next_level |-> p.experience_to_next_level,
     inventory |-> [i \in 1..Len(p.inventory) |-> ItemToDict(p.inventory[i])],
     weapon |-> WeaponToDict(p.weapon)]

\* Player.from_dict: the items ItemFactory cannot create are left out
PlayerFromDict(data) ==
    LET created == SelectSeq(data.inventory, Creatable)
    IN  [name |-> data.name, health |-> data.health,
         max_health |-> data.max_health, attack |-> data.attack,
         defense |-> data.defense, agility |-> data.agility,
         credits |-> data.credits, energy |-> data.energy,
         max_energy |-> data.max_energy, level_keys |-> data.level_keys,
         level |-> data.level, experience |-> data.experience,
         experience_to_next_level |-> data.experience_to_next_level,
         inventory |-> [i \in 1..Len(created) |-> created[i].name],
         weapon |-> IF data.weapon # <<>> /\ Creatable(data.weapon)
                    THEN <<data.weapon.attack>> ELSE <<>>]

\* GridGame.to_dict
ToDict(p, g, gs, history) ==
    [player_pos |-> g.player_pos, portal_pos |-> g.portal_pos,
     store_pos |-> g.store_pos, player |-> PlayerToDict(p),
     npcs |-> [k \in 1..Len(g.npcs) |->
                 [position |-> g.npcs[k][1], npc_data |-> g.npcs[k][2]]],
     planted_crops |-> g.planted_crops, farming_stats |-> g.farming_stats,
     game_stats |-> gs, battle_history |-> history]

\* from_dict with the default kept for game_stats and battle_history
FromDictDefaults(data) ==
    [player |-> PlayerFromDict(data.player),
     gg |-> [grid |-> [p \in Positions |-> EmptySymbol],
             npcs |-> [k \in 1..Len(data.npcs) |->
                         <<data.npcs[k].position, data.npcs[k].npc_data>>],
             player_pos |-> data.player_pos, portal_pos |-> data.portal_pos,
             store_pos |-> data.store_pos,
             planted_crops |-> data.planted_crops,
             farming_stats |-> data.farming_stats],
     game_stats |-> NewGameStats, battle_history |-> <<>>]

\* GridGame.from_dict: a new game whose attributes are overwritten with the
\* saved ones; the grid is left for load_game to populate
FromDict(data) ==
    [player |-> PlayerFromDict(data.player),
     gg |-> [grid |-> [p \in Positions |-> EmptySymbol],
             npcs |-> [k \in 1..Len(data.npcs) |->
                         <<data.npcs[k].position, data.npcs[k].npc_data>>],
             player_pos |-> data.player_pos, portal_pos |-> data.portal_pos,
             store_pos |-> data.store_pos,
             planted_crops |-> data.planted_crops,
             farming_stats |-> data.farming_stats],
     game_stats |-> data.game_stats, battle_history |-> data.battle_history]

\* what of a game the round trip is to keep
Kept(p, g, gs, history) ==
    [name |-> p.name, credits |-> p.credits, health |-> p.health,
     inventory_size |-> Len(p.inventory), player_pos |-> g.player_pos,
     farming_stats |-> g.farming_stats, game_stats |-> gs,
     battle_history |-> history]

SaveFrame ==
    /\ calls < MaxSaveOps
    /\ calls' = calls + 1
    /\ UNCHANGED <<npc, bosses, cur, npcs, grid, combo_count,
                   combo_multiplier, battle_data, pc, td, enc, player_pos,
                   portal_window, search, gui, ts>>

\* GridGame.get_save_filename(slot) called on its own
OpGetSaveFilename ==
    /\ SaveFrame
    /\ UNCHANGED <<player, gg, game_stats, battle_history, saves>>
    /\ \E slot \in SlotInputs :
         last' = [op |-> "get_save_filename", choice |-> slot,
                  result |-> IF GetSaveFilename(slot).raised
                             THEN "ValueError" ELSE "name"]

\* game.save_game(slot): the ValueError of get_save_filename is caught
SaveGame ==
    /\ SaveFrame
    /\ UNCHANGED <<player, gg, game_stats, battle_history>>
    /\ \E slot \in SlotInputs :
         LET filename == GetSaveFilename(slot)
         IN  IF filename.raised
             THEN /\ last' = [op |-> "save_game", choice |-> slot,
                              result |-> "False"]
                  /\ UNCHANGED saves
             ELSE /\ saves' =
                       [saves EXCEPT
                          !.files[filename.slot] =
                              ToDict(player, gg, game_stats, battle_history),
                          !.at_save[filename.slot] =
                              Kept(player, gg, game_stats, battle_history)]
                  /\ last' = [op |-> "save_game", choice |-> slot,
                              result |-> "True"]

\* GridGame.load_game(slot): get_save_filename is called outside the try
LoadGame ==
    /\ SaveFrame
    /\ UNCHANGED <<player, gg, game_stats, battle_history>>
    /\ \E slot \in SlotInputs :
         LET filename == GetSaveFilename(slot)
         IN  IF filename.raised
             THEN /\ last' = [op |-> "load_game", choice |-> slot,
                              result |-> "ValueError"]
                  /\ saves' = [saves EXCEPT !.loaded = NoGame]
             ELSE IF saves.files[filename.slot] = NoFile
             THEN /\ last' = [op |-> "load_game", choice |-> slot,
                              result |-> "None"]
                  /\ saves' = [saves EXCEPT !.loaded = NoGame]
             ELSE LET game == FromDict(saves.files[filename.slot])
                  IN  /\ last' = [op |-> "load_game", choice |-> slot,
                                  result |-> "game"]
                      /\ saves' =
                           [saves EXCEPT
                              !.loaded =
                                 [game EXCEPT
                                    !.gg = PopulateGridForLevel(
                                             @, @.player_pos[1])]]

\* The game goes on after a save: the player is hit, buys a Small Potion,
\* moves, a battle is recorded, farming experience is gained.
PlayOn ==
    /\ SaveFrame
    /\ UNCHANGED saves
    /\ \E what \in {"hit", "buy", "move", "won", "lost", "farm"} :
         /\ last' = [op |-> what, choice |-> 0, result |-> "None"]
         /\ player' =
              CASE what = "hit" -> PlayerTakeDamage(player, 30)
                [] what = "buy" /\ player.credits >= 25 ->
                     [player EXCEPT !.credits = @ - 25,
                                    !.inventory = Append(@, SmallPotion)]
                [] what = "won" -> [player EXCEPT !.credits = @ + 20]
                [] OTHER -> player
         /\ gg' =
              CASE what = "move"
                     /\ GetTargetPosition(gg.player_pos, "a") # NoPos ->
                     [gg EXCEPT !.player_pos =
                                   GetTargetPosition(gg.player_pos, "a")]
                [] what = "farm" ->
                     [gg EXCEPT !.farming_stats = AddFarmingExp(@, 60)]
                [] OTHER -> gg
         /\ game_stats' =
              IF what \in {"won", "lost"}
              THEN RecordBattleStats(game_stats, gg.player_pos[1],
                                     what = "won", 20)
              ELSE game_stats
         /\ battle_history' =
              IF what \in {"won", "lost"}
              THEN RecordBattleEntry(battle_history, what = "won", 1,
                                     IF what = "won" THEN 20 ELSE 0, <<>>)
              ELSE battle_history

\* play goes on with the game load_game returned
PlayLoaded ==
    /\ saves.loaded # NoGame
    /\ SaveFrame
    /\ player' = saves.loaded.player
    /\ gg' = saves.loaded.gg
    /\ game_stats' = saves.loaded.game_stats
    /\ battle_history' = saves.loaded.battle_history
    /\ last' = [op |-> "play_loaded", choice |-> 0, result |-> "None"]
    /\ UNCHANGED saves

\* A game in play: the player named, with or without items and a weapon,
\* on the first level or a higher one; no save file exists.
InitSave ==
    /\ \E name \in {"Player", "TestPlayer"} :
         \E inv \in {<<>>, <<SmallPotion, PhoenixDown, LargePotion>>} :
           player = [name |-> name] @@ NewPlayer(<<5>>, inv)
    /\ npc = NewNPC(30, 10, 3, 5, 1, FALSE, 63, <<>>)
    /\ bosses = <<>>
    /\ cur = 0
    /\ npcs = << <<2, "npc">> >>
    /\ grid = [c \in GridCells |->
                  IF c = 1 THEN "@" ELSE IF c = 2 THEN "E" ELSE EmptySymbol]
    /\ combo_count = InitialComboCount
    /\ combo_multiplier = MultOf(InitialComboCount)
    /\ game_stats = NewGameStats
    /\ battle_history = <<>>
    /\ battle_data = BlankData
    /\ pc = "idle"
    /\ calls = 0
    /\ td = BlankTd
    /\ last = BlankLast
    /\ enc = BlankEnc
    /\ portal_window = "none"
    /\ search = BlankSearch
    /\ gui = BlankGui
    /\ ts = BlankTs
    /\ saves = [files |-> [s \in SlotInputs |-> NoFile], loaded |-> NoGame,
                at_save |-> [s \in SlotInputs |-> NoGame]]
    /\ \E level \in {0, 1} :
         /\ player_pos = level
         /\ gg = NewGridGame(<<level, 1, 1>>, <<level, 0, 0>>,
                             {<<0, 0, 2>>},
                             << <<<<level, 0, 1>>, "npc">>,
                                <<<<level, 1, 2>>, "other">> >>, {})
                   @@ [farming_stats |-> NewFarmingStats]

NextSave ==
    \/ OpGetSaveFilename
    \/ SaveGame
    \/ LoadGame
    \/ PlayOn
    \/ PlayLoaded

SpecSave == InitSave /\ [][NextSave]_vars

\* a slot outside 1..5 was passed to the method called in this step
InvalidSlot == last'.choice \notin 1..5

\* C33: a save slot outside 1..5 is never silently accepted:
\* get_save_filename raises an error for it, save_game reports failure and
\* writes no file, and load_game returns no game; load_game on a valid slot
\* that was never saved returns None.
C33_InvalidSlotRejected ==
    [][ /\ (Called("get_save_filename") /\ InvalidSlot) =>
              last'.result = "ValueError"
        /\ (Called("save_game") /\ InvalidSlot) =>
              /\ last'.result = "False"
              /\ saves'.files = saves.files
        /\ (Called("load_game") /\ InvalidSlot) =>
              /\ last'.result # "game"
              /\ saves'.loaded = NoGame
        /\ (Called("load_game") /\ ~InvalidSlot
              /\ saves.files[last'.choice] = NoFile) =>
              /\ last'.result = "None"
              /\ saves'.loaded = NoGame ]_vars

\* after a save to a valid slot, a load of slot 0 or 6 returned no game
C33_Witness ==
    /\ last.op = "load_game"
    /\ last.choice \notin 1..5
    /\ last.result = "ValueError"
    /\ saves.loaded = NoGame
    /\ \E s \in SlotInputs \cap (1..5) : saves.files[s] # NoFile
    /\ \A s \in SlotInputs \ (1..5) : saves.files[s] = NoFile

\* C34: saving a game to a valid slot and loading that slot yields a game
\* whose player name, credits, health, inventory size, player position,
\* farming_stats, game_stats and battle history are those at the time of the
\* save, whatever was changed in the original game after saving.
C34_RoundTrip ==
    (last.op = "load_game" /\ last.result = "game") =>
        /\ saves.loaded # NoGame
        /\ Kept(saves.loaded.player, saves.loaded.gg,
                saves.loaded.game_stats, saves.loaded.battle_history)
             = saves.at_save[last.choice]

\* a game with items and a recorded battle was saved and changed afterwards,
\* and the load returned the game as saved
C34_Witness ==
    /\ last.op = "load_game"
    /\ last.result = "game"
    /\ Len(saves.loaded.player.inventory) = 3
    /\ Len(saves.loaded.battle_history) = 1
    /\ Kept(player, gg, game_stats, battle_history)
         # saves.at_save[last.choice]

(***************************************************************************)
(* Placement (SpecPlace): GridGame.__init__ places the portal, the NPCs    *)
(* and the stores in that order; afterwards the player moves, takes the    *)
(* portal to another level, and defeated NPCs are respawned.  Every entry  *)
(* of game.npcs is tagged "other"; pc names the placement method to run    *)
(* next, "idle" once the game is constructed.                              *)
(***************************************************************************)
MaxPlaceOps == 2

\* the numbers random.randint(2, 4) is taken to return for num_npcs
NumNpcsDrawn == {2}

\* the <<row, col>> pairs drawn for a portal
PortalCellsDrawn == {<<0, 0>>, <<1, 1>>}

PlaceFrame ==
    UNCHANGED <<player, npc, bosses, cur, npcs, grid, combo_count,
                combo_multiplier, game_stats, battle_history, battle_data,
                td, last, enc, player_pos, portal_window, search, gui, ts,
                saves>>

\* GridGame.place_portal: a drawn cell of the level other than the player's
PlacePortal ==
    /\ pc = "place_portal"
    /\ \E cell \in PortalCellsDrawn :
         LET pos == <<gg.player_pos[1], cell[1], cell[2]>>
         IN  /\ pos # gg.player_pos
             /\ gg' = [gg EXCEPT !.portal_pos = pos]
    /\ pc' = "place_npcs"
    /\ UNCHANGED calls
    /\ PlaceFrame

\* GridGame.place_npcs: up to num_npcs NPCs, each on a cell that is not the
\* player's, the portal's, a store's or another NPC's; an NPC whose 100 draws
\* all miss is left out.  store_pos is still empty here.
PlaceNpcs ==
    /\ pc = "place_npcs"
    /\ \E num_npcs \in NumNpcsDrawn :
         \E ps \in SUBSET (OnLevel(gg.player_pos[1])
                             \ ({gg.player_pos, gg.portal_pos}
                                  \cup gg.store_pos)) :
           /\ Cardinality(ps) <= num_npcs
           /\ Cardinality(ps) >= 1
           /\ gg' = [gg EXCEPT !.npcs = OtherNpcs(ps)]
    /\ pc' = "place_stores"
    /\ UNCHANGED calls
    /\ PlaceFrame

\* GridGame.place_stores, then populate_grid_for_level(0) at the end of
\* __init__: one or two stores on level 0, each on a cell that is not the
\* player's, the portal's or another store's
PlaceStores ==
    /\ pc = "place_stores"
    /\ \E ps \in SUBSET (OnLevel(0) \ {gg.player_pos, gg.portal_pos}) :
         /\ Cardinality(ps) \in {1, 2}
         /\ gg' = PopulateGridForLevel([gg EXCEPT !.store_pos = ps], 0)
    /\ pc' = "idle"
    /\ UNCHANGED calls
    /\ PlaceFrame

\* GameGUI.handle_portal_movement(action) for a button of the dialog: the
\* player's level changes, the portal and num_npcs new NPCs are drawn on the
\* new level, each NPC on a cell that is not the player's, the portal's or
\* another NPC's
PlaceHandlePortalMovement ==
    /\ pc = "idle"
    /\ calls < MaxPlaceOps
    /\ calls' = calls + 1
    /\ \E action \in {"1", "2"} :
         LET level == IF action = "1" THEN gg.player_pos[1] - 1
                      ELSE gg.player_pos[1] + 1
             pp == <<level, gg.player_pos[2], gg.player_pos[3]>>
             portal(cell) == <<level, cell[1], cell[2]>>
         IN  /\ level \in Levels
             /\ \E cell \in PortalCellsDrawn, num_npcs \in NumNpcsDrawn :
                  \E ps \in SUBSET (OnLevel(level) \ {pp, portal(cell)}) :
                    /\ Cardinality(ps) = num_npcs
                    /\ gg' = PopulateGridForLevel(
                               [gg EXCEPT !.player_pos = pp,
                                          !.portal_pos = portal(cell),
                                          !.npcs = OtherNpcs(ps)], level)
    /\ UNCHANGED pc
    /\ PlaceFrame

\* BattleWindow.handle_battle_end(True) for an NPC of the list: the entry
\* is removed and the cell cleared, and the NPC is listed again at the
\* position find_random_empty_spot returns, if it returns one
PlaceRespawn ==
    /\ pc = "idle"
    /\ calls < MaxPlaceOps
    /\ calls' = calls + 1
    /\ \E k \in 1..Len(gg.npcs) :
         LET original_pos == gg.npcs[k][1]
             rest == [i \in 1..(Len(gg.npcs) - 1) |->
                        IF i < k THEN gg.npcs[i] ELSE gg.npcs[i + 1]]
             cleared == [gg EXCEPT !.grid[original_pos] = EmptySymbol,
                                   !.npcs = rest]
         IN  \E new_pos \in { p \in OnLevel(original_pos[1]) :
                                SpotAccepted(cleared, p) } \cup {NoPos} :
               gg' = IF new_pos = NoPos THEN cleared
                     ELSE [cleared EXCEPT
                             !.npcs = Append(@, <<new_pos, "other">>),
                             !.grid[new_pos] = "E"]
    /\ UNCHANGED pc
    /\ PlaceFrame

\* GameGUI.move_player onto a cell that holds neither the portal nor an NPC
PlaceMovePlayer ==
    /\ pc = "idle"
    /\ calls < MaxPlaceOps
    /\ calls' = calls + 1
    /\ \E direction \in Directions :
         LET target == GetTargetPosition(gg.player_pos, direction)
         IN  /\ target # NoPos
             /\ target # gg.portal_pos
             /\ target \notin NpcPositions(gg)
             /\ gg' = [gg EXCEPT !.player_pos = target]
    /\ UNCHANGED pc
    /\ PlaceFrame

\* GridGame.__init__ before the placement methods run
InitPlace ==
    /\ player = NewPlayer(<<>>, <<>>)
    /\ npc = NewNPC(30, 10, 3, 5, 1, FALSE, 63, <<>>)
    /\ bosses = <<>>
    /\ cur = 0
    /\ npcs = << <<2, "npc">> >>
    /\ grid = [c \in GridCells |->
                  IF c = 1 THEN "@" ELSE IF c = 2 THEN "E" ELSE EmptySymbol]
    /\ combo_count = InitialComboCount
    /\ combo_multiplier = MultOf(InitialComboCount)
    /\ game_stats = NewGameStats
    /\ battle_history = <<>>
    /\ battle_data = BlankData
    /\ pc = "place_portal"
    /\ calls = 0
    /\ td = BlankTd
    /\ last = BlankLast
    /\ enc = BlankEnc
    /\ player_pos = 0
    /\ portal_window = "none"
    /\ search = BlankSearch
    /\ gui = BlankGui
    /\ ts = BlankTs
    /\ saves = BlankSaves
    /\ gg = [grid |-> [p \in Positions |-> EmptySymbol], npcs |-> <<>>,
             player_pos |-> <<0, grid_height \div 2, grid_width \div 2>>,
             portal_pos |-> NoPos, store_pos |-> {}, planted_crops |-> {}]

NextPlace ==
    \/ PlacePortal
    \/ PlaceNpcs
    \/ PlaceStores
    \/ PlaceHandlePortalMovement
    \/ PlaceRespawn
    \/ PlaceMovePlayer

SpecPlace == InitPlace /\ [][NextPlace]_vars

\* C36: once the game is constructed, and after any respawns and portal
\* level changes, no two NPCs are on the same cell and no NPC shares its
\* cell with the player, the portal or a store.
C36_NpcCellsExclusive ==
    pc = "idle" =>
        /\ \A i, j \in 1..Len(gg.npcs) :
             i # j => gg.npcs[i][1] # gg.npcs[j][1]
        /\ \A i \in 1..Len(gg.npcs) :
             /\ gg.npcs[i][1] # gg.player_pos
             /\ gg.npcs[i][1] # gg.portal_pos
             /\ gg.npcs[i][1] \notin gg.store_pos

====
